---- MODULE Spec2Model ----
(***************************************************************************)
(* The card-reordering core of the notecards application: the              *)
(* useCardOperations hook (reorderCards, moveCardUp, moveCardDown) of one  *)
(* deck, the Firestore documents it writes, and readers that query the     *)
(* deck's cards while calls of the hook are in flight.                     *)
(*                                                                         *)
(* Arrays of the source are 0-based; sequences here are 1-based.  Every    *)
(* operator that carries an index of the source (cardIndex, orderIndex,    *)
(* index) carries the 0-based value and adds 1 where it reads a sequence.  *)
(***************************************************************************)
EXTENDS Integers, Sequences, FiniteSets, TLC

\* ------------------------------------------------------------------ bounds
MaxCards == 3
MaxLen == 3
MaxCalls == 1
MaxClock == 2
MaxOverlap == 2
NumClients == 2

CardIds == 1..MaxCards
\* The deckId the hook was given.
DeckId == "test-deck-id"
\* The deckId of a deck the hook was not given.
OtherDeckId == "other-deck-id"
\* The empty string as a cardId.
EmptyId == -1
\* An identifier no list and no document carries ('non-existent-card').
MissingId == 0
Clients == 1..NumClients
CallIds == 1..MaxCalls

\* Array arguments of the hook: currentCards (the ids of the Card objects)
\* and cardIds.
RECURSIVE SeqsUpTo(_, _)
SeqsUpTo(S, n) ==
    IF n = 0 THEN {<<>>}
    ELSE LET shorter == SeqsUpTo(S, n - 1)
         IN shorter \cup {Append(s, x) : s \in {t \in shorter : Len(t) = n - 1}, x \in S}

IdLists == SeqsUpTo(CardIds, MaxLen)

Range(s) == {s[i] : i \in 1..Len(s)}

\* The titles typed into the modals, and what is left of them after trim().
TitleInputs == {" ", "a"}
EditedTitles == {"b"}
Titles == {"a", "b"}

\* ------------------------------------------------------- values of the hook
Null == "<null>"
ErrAuth == "User must be authenticated"
ErrCardIds == "Card IDs are required"
ErrMoveUp == "Card cannot be moved up"
ErrMoveDown == "Card cannot be moved down"
FailedReorder == "Failed to reorder cards"
FailedMoveUp == "Failed to move card up"
FailedMoveDown == "Failed to move card down"
ErrDeckId == "Deck ID is required"
ErrTitle == "Card title is required"
ErrCardId == "Card ID is required"
FailedCreate == "Failed to create card"
FailedUpdate == "Failed to update card"
FailedDelete == "Failed to delete card"
TypeErrorMessage == "Cannot read properties of undefined (reading 'id')"

\* The message of the error a failed batch.commit() rejects with.
StorageErrors == {"Firestore connection failed"}

VARIABLES
    cards,      \* the 'cards' documents: id -> [orderIndex, updatedAt, title, deckId]
    deck,       \* the deck document of the hook's deckId: [updatedAt, cardCount]
    clock,      \* the server's clock, the value serverTimestamp() resolves to
    user,       \* useAuth().user of each client: TRUE when signed in
    loading,    \* useState(false) of each client's hook
    error,      \* useState(null) of each client's hook
    calls,      \* the calls of the hook that are awaiting batch.commit()
    event,      \* what the last step returned to its caller, if anything
    args,       \* the arguments the callers of this run pass: [cardId, currentCards]
    nextId,     \* the identifier addDoc gives the next document it creates
    screen,     \* the state of each client's CardScreen
    trip,       \* the notes of the caller that moves a card up and down again
    appState,   \* useState<AppState> of App
    timers      \* the setTimeout callbacks of App that are still to run, oldest first

vars == <<cards, deck, clock, user, loading, error, calls, event, args, nextId,
          screen, trip, appState, timers>>

\* The variables of App.
appVars == <<appState, timers>>

\* The variables outside the hook and the documents: a call of the hook made
\* by anything but a CardScreen leaves them alone.
callerVars == <<screen, trip, appVars>>

\* useState<AppState>({...}) of App.
InitialAppState ==
    [currentScreen |-> "decks", selectedDeckId |-> Null, selectedDeckTitle |-> Null,
     isTransitioning |-> FALSE]

NoEvent == [type |-> "none"]
IdleCall == [pc |-> "idle"]

Settled(type, c, kind, err) ==
    [type |-> type, client |-> c, kind |-> kind, error |-> err]

\* ---------------------------------------------------------- pure functions

\* Array.prototype.findIndex(card => card.id === cardId): the first position
\* (0-based) that holds cardId, -1 when none does.
FindIndex(currentCards, cardId) ==
    IF \E i \in 1..Len(currentCards) : currentCards[i] = cardId
    THEN (CHOOSE i \in 1..Len(currentCards) :
              /\ currentCards[i] = cardId
              /\ \A j \in 1..(i - 1) : currentCards[j] # cardId) - 1
    ELSE -1

\* The bounds check of moveCardUp: true when the call throws.
CannotMoveUp(cardIndex) == cardIndex <= 0

\* The bounds check of moveCardDown: true when the call throws.
CannotMoveDown(cardIndex, length) == cardIndex >= length - 1 \/ cardIndex = -1

\* moveCardUp with the swap written without its two temporaries: position
\* cardIndex is read back after position cardIndex - 1 was overwritten.
MoveUpCardIdsNoTemp(currentCards, cardIndex) ==
    [currentCards EXCEPT ![cardIndex] = currentCards[cardIndex + 1]]

\* newCardOrder of moveCardUp, as the ids handed to reorderCards.
MoveUpCardIds(currentCards, cardIndex) ==
    LET cardToMove == currentCards[cardIndex + 1]
        cardAbove == currentCards[cardIndex]
    IN  [[currentCards EXCEPT ![cardIndex] = cardToMove]
                       EXCEPT ![cardIndex + 1] = cardAbove]

\* moveCardDown with the swap written without its two temporaries.
MoveDownCardIdsNoTemp(currentCards, cardIndex) ==
    [currentCards EXCEPT ![cardIndex + 2] = currentCards[cardIndex + 1]]

\* moveCardDown sending the card to the end of the list instead of one down.
MoveDownCardIdsToEnd(currentCards, cardIndex) ==
    [i \in 1..Len(currentCards) |->
        IF i < cardIndex + 1 THEN currentCards[i]
        ELSE IF i < Len(currentCards) THEN currentCards[i + 1]
        ELSE currentCards[cardIndex + 1]]

\* moveCardDown without its swap: the list is handed on as it came.
MoveDownCardIdsUnswapped(currentCards, cardIndex) == currentCards

\* newCardOrder of moveCardDown, as the ids handed to reorderCards.
MoveDownCardIds(currentCards, cardIndex) ==
    LET cardToMove == currentCards[cardIndex + 1]
        cardBelow == currentCards[cardIndex + 2]
    IN  [[currentCards EXCEPT ![cardIndex + 2] = cardToMove]
                       EXCEPT ![cardIndex + 1] = cardBelow]

\* The loop of writes stopping after its first write.
BatchUpdateFirstOnly(cs, cardIds, index, ts) ==
    IF Len(cardIds) = 0 THEN cs
    ELSE [cs EXCEPT ![cardIds[1]] = [@ EXCEPT !.orderIndex = 0, !.updatedAt = ts]]

\* The loop of writes numbering the positions from 1.
RECURSIVE BatchUpdateOneBased(_, _, _, _)
BatchUpdateOneBased(cs, cardIds, index, ts) ==
    IF index >= Len(cardIds) THEN cs
    ELSE BatchUpdateOneBased(
            [cs EXCEPT ![cardIds[index + 1]] =
                [@ EXCEPT !.orderIndex = index + 1, !.updatedAt = ts]],
            cardIds, index + 1, ts)

\* The loop of writes passing over the documents an earlier commit has
\* written: the first writer wins.
RECURSIVE BatchUpdateUnwrittenOnly(_, _, _, _)
BatchUpdateUnwrittenOnly(cs, cardIds, index, ts) ==
    IF index >= Len(cardIds) THEN cs
    ELSE BatchUpdateUnwrittenOnly(
            IF cs[cardIds[index + 1]].updatedAt # 0 THEN cs
            ELSE [cs EXCEPT ![cardIds[index + 1]] =
                    [@ EXCEPT !.orderIndex = index, !.updatedAt = ts]],
            cardIds, index + 1, ts)

\* The loop of writes with batch.set in place of batch.update: each written
\* document is replaced by the two fields of the write, its title is lost.
RECURSIVE BatchUpdateReplacing(_, _, _, _)
BatchUpdateReplacing(cs, cardIds, index, ts) ==
    IF index >= Len(cardIds) THEN cs
    ELSE BatchUpdateReplacing(
            [cs EXCEPT ![cardIds[index + 1]] =
                [orderIndex |-> index, updatedAt |-> ts, title |-> "", deckId |-> ""]],
            cardIds, index + 1, ts)

\* The writes of the batch on the card documents, in the order
\* cardIds.forEach queued them: position index gets orderIndex index.
RECURSIVE BatchUpdate(_, _, _, _)
BatchUpdate(cs, cardIds, index, ts) ==
    IF index >= Len(cardIds) THEN cs
    ELSE BatchUpdate(
            [cs EXCEPT ![cardIds[index + 1]] =
                [@ EXCEPT !.orderIndex = index, !.updatedAt = ts]],
            cardIds, index + 1, ts)

\* batch.update() needs its document to exist: a batch that names a missing
\* document is rejected as a whole.
BatchCanCommit(cs, cardIds) ==
    \A i \in 1..Len(cardIds) : cardIds[i] \in DOMAIN cs

\* The documents of cs that where('deckId', '==', deckId) selects.
DeckCards(cs) == {id \in DOMAIN cs : cs[id].deckId = DeckId}

\* What getDocs(query(cardsRef, where('deckId', '==', deckId))) returns.
DeckDocs(cs) == [id \in DeckCards(cs) |-> cs[id].orderIndex]

\* -------------------------------------------------------------------- Init
\* The title the cards of the initial deck carry.
InitialTitle(id) == IF id % 2 = 1 THEN "a" ELSE "b"

\* A deck of n cards as n successful createCard calls, one after the other,
\* leave it: orderIndex 0..n-1 in the order of creation.
InitialCards(n) ==
    [id \in 1..n |-> [orderIndex |-> id - 1, updatedAt |-> 0, title |-> InitialTitle(id),
                      deckId |-> DeckId]]

InitialDeck(n) == [updatedAt |-> 0, cardCount |-> n]

\* useState('') of searchQuery, useState(false) of the three modals,
\* useState(null) of selectedCard (<<>> for null, <<id>> for a card), and the
\* cards useCards returned last; unhandled says whether a rejection or an
\* exception of a handler of the screen has reached the top level.
ScreenOf(shown) ==
    [cards |-> shown, searchQuery |-> "", showCreateModal |-> FALSE,
     showEditModal |-> FALSE, showDeleteModal |-> FALSE, selectedCard |-> <<>>,
     unhandled |-> FALSE]

NoTrip == [phase |-> "none"]

Init ==
    /\ \E n \in 0..MaxCards :
          /\ cards = InitialCards(n)
          /\ deck = InitialDeck(n)
          /\ nextId = n + 1
    /\ clock = 0
    /\ user \in [Clients -> BOOLEAN]
    /\ loading = [c \in Clients |-> FALSE]
    /\ error = [c \in Clients |-> Null]
    /\ calls = [k \in CallIds |-> IdleCall]
    /\ event = NoEvent
    /\ args \in [cardId : CardIds \cup {MissingId}, currentCards : IdLists]
    /\ screen = [c \in Clients |-> ScreenOf(<<>>)]
    /\ trip = NoTrip
    /\ appState = InitialAppState
    /\ timers = <<>>

\* ----------------------------------------------------------------- actions
FreeSlot(k) ==
    /\ calls[k].pc = "idle"
    /\ \A j \in 1..(k - 1) : calls[j].pc # "idle"

\* A precondition check that runs setLoading(false) before it throws.
ThrowClearingLoading(c, kind, err) ==
    /\ event' = Settled("rejected", c, kind, err)
    /\ loading' = [loading EXCEPT ![c] = FALSE]
    /\ UNCHANGED <<cards, deck, clock, user, error, calls, args, nextId>>

\* A precondition check throws: the promise rejects, nothing else happens.
Throw(c, kind, err) ==
    /\ event' = Settled("rejected", c, kind, err)
    /\ UNCHANGED <<cards, deck, clock, user, loading, error, calls, args, nextId>>

\* The start of a call without its setError(null).
AwaitKeepingError(c, call) ==
    /\ \E k \in DOMAIN calls :
          /\ FreeSlot(k)
          /\ calls' = [calls EXCEPT ![k] = call]
    /\ loading' = [loading EXCEPT ![c] = TRUE]
    /\ event' = NoEvent
    /\ UNCHANGED <<cards, deck, clock, user, error, args, nextId>>

\* setLoading(true); setError(null); the try block runs to its first await,
\* where the call waits as the record call says.
Await(c, call) ==
    /\ \E k \in DOMAIN calls :
          /\ FreeSlot(k)
          /\ calls' = [calls EXCEPT ![k] = call]
    /\ loading' = [loading EXCEPT ![c] = TRUE]
    /\ error' = [error EXCEPT ![c] = Null]
    /\ event' = NoEvent
    /\ UNCHANGED <<cards, deck, clock, user, args, nextId>>

\* setLoading(true); setError(null); the batch is built and batch.commit()
\* is awaited.
AwaitCommit(c, kind, cardIds) ==
    Await(c, [pc |-> "commit", client |-> c, kind |-> kind, cardIds |-> cardIds])

\* reorderCards without its check of cardIds.length.
ReorderCardsNoLengthCheck(c, cardIds) ==
    IF ~user[c] THEN Throw(c, "reorderCards", ErrAuth)
    ELSE AwaitCommit(c, "reorderCards", cardIds)

\* reorderCards with a check that its list is a permutation of the deck.
ReorderCardsValidating(c, cardIds) ==
    IF ~user[c] THEN Throw(c, "reorderCards", ErrAuth)
    ELSE IF \/ Len(cardIds) = 0
            \/ Range(cardIds) # DeckCards(cards)
            \/ \E i, j \in 1..Len(cardIds) : i # j /\ cardIds[i] = cardIds[j]
         THEN Throw(c, "reorderCards", ErrCardIds)
    ELSE AwaitCommit(c, "reorderCards", cardIds)

ReorderCards(c, cardIds) ==
    IF ~user[c] THEN Throw(c, "reorderCards", ErrAuth)
    ELSE IF Len(cardIds) = 0 THEN Throw(c, "reorderCards", ErrCardIds)
    ELSE AwaitCommit(c, "reorderCards", cardIds)

\* What the try block of a move does when the swap reads past the array:
\* newCardOrder.map(card => card.id) throws on the undefined element, and the
\* catch block does setError, setLoading(false), throw err.
ThrowInTry(c, kind) ==
    /\ event' = Settled("rejected", c, kind, TypeErrorMessage)
    /\ error' = [error EXCEPT ![c] = TypeErrorMessage]
    /\ loading' = [loading EXCEPT ![c] = FALSE]
    /\ UNCHANGED <<cards, deck, clock, user, calls, args, nextId>>

\* moveCardUp with the bounds check cardIndex < 0.
MoveCardUpLooseCheck(c, cardId, currentCards) ==
    LET cardIndex == FindIndex(currentCards, cardId)
    IN  IF ~user[c] THEN Throw(c, "moveCardUp", ErrAuth)
        ELSE IF cardIndex < 0 THEN Throw(c, "moveCardUp", ErrMoveUp)
        ELSE IF cardIndex = 0 THEN ThrowInTry(c, "moveCardUp")
        ELSE AwaitCommit(c, "moveCardUp", MoveUpCardIds(currentCards, cardIndex))

\* moveCardUp with the bounds check cardIndex === 0: a target that is not
\* found swaps two properties outside the array and hands the ids on as they
\* came.
MoveCardUpFoundAssumed(c, cardId, currentCards) ==
    LET cardIndex == FindIndex(currentCards, cardId)
    IN  IF ~user[c] THEN Throw(c, "moveCardUp", ErrAuth)
        ELSE IF cardIndex = 0 THEN Throw(c, "moveCardUp", ErrMoveUp)
        ELSE IF cardIndex = -1
             THEN IF Len(currentCards) = 0 THEN ThrowInTry(c, "moveCardUp")
                  ELSE AwaitCommit(c, "moveCardUp", currentCards)
        ELSE AwaitCommit(c, "moveCardUp", MoveUpCardIds(currentCards, cardIndex))

MoveCardUp(c, cardId, currentCards) ==
    LET cardIndex == FindIndex(currentCards, cardId)
    IN  IF ~user[c] THEN Throw(c, "moveCardUp", ErrAuth)
        ELSE IF CannotMoveUp(cardIndex) THEN Throw(c, "moveCardUp", ErrMoveUp)
        ELSE AwaitCommit(c, "moveCardUp", MoveUpCardIds(currentCards, cardIndex))

\* moveCardDown with its bounds check ahead of its check of the user.
MoveCardDownBoundsFirst(c, cardId, currentCards) ==
    LET cardIndex == FindIndex(currentCards, cardId)
    IN  IF CannotMoveDown(cardIndex, Len(currentCards))
        THEN Throw(c, "moveCardDown", ErrMoveDown)
        ELSE IF ~user[c] THEN Throw(c, "moveCardDown", ErrAuth)
        ELSE AwaitCommit(c, "moveCardDown", MoveDownCardIds(currentCards, cardIndex))

\* moveCardDown with the bounds check cardIndex > currentCards.length - 1.
MoveCardDownLooseCheck(c, cardId, currentCards) ==
    LET cardIndex == FindIndex(currentCards, cardId)
    IN  IF ~user[c] THEN Throw(c, "moveCardDown", ErrAuth)
        ELSE IF cardIndex > Len(currentCards) - 1 \/ cardIndex = -1
             THEN Throw(c, "moveCardDown", ErrMoveDown)
        ELSE IF cardIndex = Len(currentCards) - 1 THEN ThrowInTry(c, "moveCardDown")
        ELSE AwaitCommit(c, "moveCardDown", MoveDownCardIds(currentCards, cardIndex))

MoveCardDown(c, cardId, currentCards) ==
    LET cardIndex == FindIndex(currentCards, cardId)
    IN  IF ~user[c] THEN Throw(c, "moveCardDown", ErrAuth)
        ELSE IF CannotMoveDown(cardIndex, Len(currentCards))
             THEN Throw(c, "moveCardDown", ErrMoveDown)
        ELSE AwaitCommit(c, "moveCardDown", MoveDownCardIds(currentCards, cardIndex))

\* The batch without its update of the deck document.
CommitAppliedCardsOnly(k) ==
    /\ calls[k].pc = "commit"
    /\ BatchCanCommit(cards, calls[k].cardIds)
    /\ clock < MaxClock
    /\ clock' = clock + 1
    /\ cards' = BatchUpdate(cards, calls[k].cardIds, 0, clock + 1)
    /\ calls' = [calls EXCEPT ![k].pc = "applied"]
    /\ event' = NoEvent
    /\ UNCHANGED <<deck, user, loading, error, args, nextId>>

\* The server applies the batch: every queued write and the clock tick in one
\* step.
CommitApplied(k) ==
    /\ calls[k].pc = "commit"
    /\ BatchCanCommit(cards, calls[k].cardIds)
    /\ clock < MaxClock
    /\ clock' = clock + 1
    /\ cards' = BatchUpdate(cards, calls[k].cardIds, 0, clock + 1)
    /\ deck' = [deck EXCEPT !.updatedAt = clock + 1]
    /\ calls' = [calls EXCEPT ![k].pc = "applied"]
    /\ event' = NoEvent
    /\ UNCHANGED <<user, loading, error, args, nextId>>

\* The writes sent one by one instead of in a batch: the first is applied
\* before the failure.
CommitFailedAfterFirstWrite(k, message) ==
    /\ calls[k].pc = "commit"
    /\ calls' = [calls EXCEPT ![k] = [@ EXCEPT !.pc = "failed"] @@ [message |-> message]]
    /\ event' = NoEvent
    /\ IF calls[k].cardIds[1] \in DOMAIN cards /\ clock < MaxClock
       THEN /\ cards' = BatchUpdate(cards, SubSeq(calls[k].cardIds, 1, 1), 0, clock + 1)
            /\ clock' = clock + 1
       ELSE UNCHANGED <<cards, clock>>
    /\ UNCHANGED <<deck, user, loading, error, args, nextId>>

\* The failed await left as a promise nobody settles: the catch block never
\* runs.
CommitFailedLeftPending(k, message) ==
    /\ calls[k].pc = "commit"
    /\ calls' = [calls EXCEPT ![k] = [@ EXCEPT !.pc = "pending"] @@ [message |-> message]]
    /\ event' = NoEvent
    /\ UNCHANGED <<cards, deck, clock, user, loading, error, args, nextId>>

\* The server (or the network) rejects the batch.
CommitFailed(k, message) ==
    /\ calls[k].pc = "commit"
    /\ calls' = [calls EXCEPT ![k] = [@ EXCEPT !.pc = "failed"] @@ [message |-> message]]
    /\ event' = NoEvent
    /\ UNCHANGED <<cards, deck, clock, user, loading, error, args, nextId>>

\* await batch.commit() returns: setLoading(false); setError(null).
Resolve(k) ==
    /\ calls[k].pc = "applied"
    /\ loading' = [loading EXCEPT ![calls[k].client] = FALSE]
    /\ error' = [error EXCEPT ![calls[k].client] = Null]
    /\ calls' = [calls EXCEPT ![k] = IdleCall]
    /\ event' = Settled("resolved", calls[k].client, calls[k].kind, Null)
    /\ UNCHANGED <<cards, deck, clock, user, args, nextId>>

OrElse(message, fallback) == IF message # "" THEN message ELSE fallback

\* The text the last catch block of the call passes to setError.
CaughtMessage(kind, message) ==
    CASE kind = "reorderCards" -> OrElse(message, FailedReorder)
      [] kind = "moveCardUp" -> OrElse(message, FailedMoveUp)
      [] kind = "moveCardDown" -> OrElse(message, FailedMoveDown)
      [] kind = "createCard" -> OrElse(message, FailedCreate)
      [] kind = "updateCard" -> OrElse(message, FailedUpdate)
      [] kind = "deleteCard" -> OrElse(message, FailedDelete)

\* The catch blocks sending the batch again in place of giving up.
RejectRetrying(k) ==
    /\ calls[k].pc = "failed"
    /\ calls' = [calls EXCEPT ![k].pc = "commit"]
    /\ event' = NoEvent
    /\ UNCHANGED <<cards, deck, clock, user, loading, error, args, nextId>>

\* The catch blocks without their setLoading(false).
RejectLoadingStuck(k) ==
    /\ calls[k].pc = "failed"
    /\ error' = [error EXCEPT ![calls[k].client] =
                    CaughtMessage(calls[k].kind, calls[k].message)]
    /\ calls' = [calls EXCEPT ![k] = IdleCall]
    /\ event' = Settled("rejected", calls[k].client, calls[k].kind, calls[k].message)
    /\ UNCHANGED <<cards, deck, clock, user, loading, args, nextId>>

\* The catch blocks without their throw err: the error is recorded and the
\* promise resolves.
RejectSwallowed(k) ==
    /\ calls[k].pc = "failed"
    /\ error' = [error EXCEPT ![calls[k].client] =
                    CaughtMessage(calls[k].kind, calls[k].message)]
    /\ loading' = [loading EXCEPT ![calls[k].client] = FALSE]
    /\ calls' = [calls EXCEPT ![k] = IdleCall]
    /\ event' = Settled("resolved", calls[k].client, calls[k].kind, Null)
    /\ UNCHANGED <<cards, deck, clock, user, args, nextId>>

\* await batch.commit() throws: the catch block of reorderCards, then that of
\* the move that called it; each does setError, setLoading(false), throw err.
Reject(k) ==
    /\ calls[k].pc = "failed"
    /\ error' = [error EXCEPT ![calls[k].client] =
                    CaughtMessage(calls[k].kind, calls[k].message)]
    /\ loading' = [loading EXCEPT ![calls[k].client] = FALSE]
    /\ calls' = [calls EXCEPT ![k] = IdleCall]
    /\ event' = Settled("rejected", calls[k].client, calls[k].kind, calls[k].message)
    /\ UNCHANGED <<cards, deck, clock, user, args, nextId>>

\* -------------------------------------------- createCard, updateCard, deleteCard

\* String.prototype.trim on the titles the model enters.
Trim(title) == IF title = " " THEN "" ELSE title

\* doc.data().orderIndex || 0
OrZero(orderIndex) == IF orderIndex = 0 THEN 0 ELSE orderIndex

MaxOf(S) == CHOOSE m \in S : \A x \in S : x <= m

\* existingCards.docs.reduce(..., -1): the highest orderIndex of the deck.
MaxOrderIndex(cs) == MaxOf({-1} \cup {OrZero(cs[id].orderIndex) : id \in DeckCards(cs)})

CreateCard(c, title) ==
    IF ~user[c] THEN Throw(c, "createCard", ErrAuth)
    ELSE IF DeckId = "" THEN Throw(c, "createCard", ErrDeckId)
    ELSE IF Trim(title) = "" THEN Throw(c, "createCard", ErrTitle)
    ELSE Await(c, [pc |-> "create:getDocs", client |-> c, kind |-> "createCard",
                   title |-> Trim(title)])

\* await getDocs(q) returns the deck's cards as they are now.
CreateGetDocs(k) ==
    /\ calls[k].pc = "create:getDocs"
    /\ calls' = [calls EXCEPT ![k] =
          [pc |-> "create:addDoc", client |-> @.client, kind |-> @.kind,
           title |-> @.title, maxOrderIndex |-> MaxOrderIndex(cards),
           length |-> Cardinality(DeckCards(cards))]]
    /\ event' = NoEvent
    /\ UNCHANGED <<cards, deck, clock, user, loading, error, args, nextId>>

\* await addDoc(collection(db, 'cards'), cardData) creates the document.
CreateAddDoc(k) ==
    /\ calls[k].pc = "create:addDoc"
    /\ nextId \in CardIds
    /\ clock < MaxClock
    /\ clock' = clock + 1
    /\ cards' = [id \in DOMAIN cards \cup {nextId} |->
          IF id = nextId
          THEN [orderIndex |-> calls[k].maxOrderIndex + 1, updatedAt |-> clock + 1,
                title |-> calls[k].title, deckId |-> DeckId]
          ELSE cards[id]]
    /\ nextId' = nextId + 1
    /\ calls' = [calls EXCEPT ![k] = [@ EXCEPT !.pc = "create:updateDeck"] @@
                                        [docRef |-> nextId]]
    /\ event' = NoEvent
    /\ UNCHANGED <<deck, user, loading, error, args>>

\* await updateDoc(deckRef, {cardCount, updatedAt}) of createCard.
CreateUpdateDeck(k) ==
    /\ calls[k].pc = "create:updateDeck"
    /\ clock < MaxClock
    /\ clock' = clock + 1
    /\ deck' = [deck EXCEPT !.cardCount = calls[k].length + 1, !.updatedAt = clock + 1]
    /\ calls' = [calls EXCEPT ![k].pc = "applied"]
    /\ event' = NoEvent
    /\ UNCHANGED <<cards, user, loading, error, args, nextId>>

UpdateCard(c, cardId, title) ==
    IF ~user[c] THEN Throw(c, "updateCard", ErrAuth)
    ELSE IF cardId = EmptyId THEN Throw(c, "updateCard", ErrCardId)
    ELSE Await(c, [pc |-> "update:updateDoc", client |-> c, kind |-> "updateCard",
                   cardId |-> cardId, title |-> title])

\* updateDoc given a whole new document: the fields that are not in the
\* updates start over.
UpdateUpdateDocReplacing(k) ==
    /\ calls[k].pc = "update:updateDoc"
    /\ calls[k].cardId \in DOMAIN cards
    /\ clock < MaxClock
    /\ clock' = clock + 1
    /\ cards' = [cards EXCEPT ![calls[k].cardId] =
          [@ EXCEPT !.title = calls[k].title, !.updatedAt = clock + 1, !.orderIndex = 0]]
    /\ calls' = [calls EXCEPT ![k].pc = "update:updateDeck"]
    /\ event' = NoEvent
    /\ UNCHANGED <<deck, user, loading, error, args, nextId>>

\* await updateDoc(cardRef, updateData): the document has to exist.
UpdateUpdateDoc(k) ==
    /\ calls[k].pc = "update:updateDoc"
    /\ calls[k].cardId \in DOMAIN cards
    /\ clock < MaxClock
    /\ clock' = clock + 1
    /\ cards' = [cards EXCEPT ![calls[k].cardId] =
          [@ EXCEPT !.title = calls[k].title, !.updatedAt = clock + 1]]
    /\ calls' = [calls EXCEPT ![k].pc = "update:updateDeck"]
    /\ event' = NoEvent
    /\ UNCHANGED <<deck, user, loading, error, args, nextId>>

\* await updateDoc(deckRef, {updatedAt}) of updateCard.
UpdateUpdateDeck(k) ==
    /\ calls[k].pc = "update:updateDeck"
    /\ clock < MaxClock
    /\ clock' = clock + 1
    /\ deck' = [deck EXCEPT !.updatedAt = clock + 1]
    /\ calls' = [calls EXCEPT ![k].pc = "applied"]
    /\ event' = NoEvent
    /\ UNCHANGED <<cards, user, loading, error, args, nextId>>

\* deleteCard without its check of the current user.
DeleteCardNoAuthCheck(c, cardId) ==
    IF cardId = EmptyId THEN Throw(c, "deleteCard", ErrCardId)
    ELSE Await(c, [pc |-> "delete:deleteDoc", client |-> c, kind |-> "deleteCard",
                   cardId |-> cardId])

DeleteCard(c, cardId) ==
    IF ~user[c] THEN Throw(c, "deleteCard", ErrAuth)
    ELSE IF cardId = EmptyId THEN Throw(c, "deleteCard", ErrCardId)
    ELSE Await(c, [pc |-> "delete:deleteDoc", client |-> c, kind |-> "deleteCard",
                   cardId |-> cardId])

\* deleteDoc followed by a renumbering of the cards behind the deleted one.
DeleteDeleteDocCompacting(k) ==
    /\ calls[k].pc = "delete:deleteDoc"
    /\ cards' = [id \in DOMAIN cards \ {calls[k].cardId} |->
          IF calls[k].cardId \in DOMAIN cards
             /\ cards[id].orderIndex > cards[calls[k].cardId].orderIndex
          THEN [cards[id] EXCEPT !.orderIndex = @ - 1]
          ELSE cards[id]]
    /\ calls' = [calls EXCEPT ![k].pc = "delete:getDocs"]
    /\ event' = NoEvent
    /\ clock < MaxClock
    /\ clock' = clock + 1
    /\ UNCHANGED <<deck, user, loading, error, args, nextId>>

\* await deleteDoc(cardRef): succeeds whether or not the document exists.
\* The server's clock advances with every write it applies.
DeleteDeleteDoc(k) ==
    /\ calls[k].pc = "delete:deleteDoc"
    /\ cards' = [id \in DOMAIN cards \ {calls[k].cardId} |-> cards[id]]
    /\ calls' = [calls EXCEPT ![k].pc = "delete:getDocs"]
    /\ event' = NoEvent
    /\ clock < MaxClock
    /\ clock' = clock + 1
    /\ UNCHANGED <<deck, user, loading, error, args, nextId>>

\* await getDocs(q) of deleteCard returns the remaining cards.
DeleteGetDocs(k) ==
    /\ calls[k].pc = "delete:getDocs"
    /\ calls' = [calls EXCEPT ![k] =
          [pc |-> "delete:updateDeck", client |-> @.client, kind |-> @.kind,
           cardId |-> @.cardId, length |-> Cardinality(DeckCards(cards))]]
    /\ event' = NoEvent
    /\ UNCHANGED <<cards, deck, clock, user, loading, error, args, nextId>>

\* await updateDoc(deckRef, {cardCount, updatedAt}) of deleteCard.
DeleteUpdateDeck(k) ==
    /\ calls[k].pc = "delete:updateDeck"
    /\ clock < MaxClock
    /\ clock' = clock + 1
    /\ deck' = [deck EXCEPT !.cardCount = calls[k].length, !.updatedAt = clock + 1]
    /\ calls' = [calls EXCEPT ![k].pc = "applied"]
    /\ event' = NoEvent
    /\ UNCHANGED <<cards, user, loading, error, args, nextId>>

\* The awaits of createCard, updateCard and deleteCard.
Requests ==
    {"create:getDocs", "create:addDoc", "create:updateDeck", "update:updateDoc",
     "update:updateDeck", "delete:deleteDoc", "delete:getDocs", "delete:updateDeck"}

\* The request a createCard, updateCard or deleteCard call awaits is rejected.
RequestFailed(k, message) ==
    /\ calls[k].pc \in Requests
    /\ calls' = [calls EXCEPT ![k] = [@ EXCEPT !.pc = "failed"] @@ [message |-> message]]
    /\ event' = NoEvent
    /\ UNCHANGED <<cards, deck, clock, user, loading, error, args, nextId>>

\* A reader runs the deck's query.
Fetch ==
    /\ event' = [type |-> "fetched", docs |-> DeckDocs(cards)]
    /\ UNCHANGED <<cards, deck, clock, user, loading, error, calls, args, nextId>>

Next ==
    \/ \E c \in Clients :
          ReorderCards(c, args.currentCards) /\ UNCHANGED callerVars
    \/ \E c \in Clients :
          MoveCardUp(c, args.cardId, args.currentCards) /\ UNCHANGED callerVars
    \/ \E c \in Clients :
          MoveCardDown(c, args.cardId, args.currentCards) /\ UNCHANGED callerVars
    \/ \E k \in DOMAIN calls : CommitApplied(k) /\ UNCHANGED callerVars
    \/ \E k \in DOMAIN calls, message \in StorageErrors :
          CommitFailed(k, message) /\ UNCHANGED callerVars
    \/ \E k \in DOMAIN calls : Resolve(k) /\ UNCHANGED callerVars
    \/ \E k \in DOMAIN calls : Reject(k) /\ UNCHANGED callerVars
    \/ Fetch /\ UNCHANGED callerVars

Spec == Init /\ [][Next]_vars

\* ---------------------------------------------- the hook with all its operations

Orderings(S) == {s \in SeqsUpTo(S, Cardinality(S)) : Len(s) = Cardinality(S) /\ Range(s) = S}

\* One instance of the hook and its caller, who passes the deck's cards in
\* display order and the id of one of them or the empty string, and starts a
\* call while up to MaxOverlap - 1 earlier ones are still awaiting.
Caller == CHOOSE c \in Clients : TRUE

InitHook ==
    /\ \E n \in 0..MaxCards :
          /\ cards = InitialCards(n)
          /\ deck = InitialDeck(n)
          /\ nextId = n + 1
          /\ args \in [cardId : (1..n) \cup {EmptyId}, currentCards : {[i \in 1..n |-> i]}]
    /\ clock = 0
    /\ user \in {u \in [Clients -> BOOLEAN] : \A c \in Clients \ {Caller} : ~u[c]}
    /\ loading = [c \in Clients |-> FALSE]
    /\ error = [c \in Clients |-> Null]
    /\ calls = [k \in 1..MaxOverlap |-> IdleCall]
    /\ event = NoEvent
    /\ screen = [c \in Clients |-> ScreenOf(<<>>)]
    /\ trip = NoTrip
    /\ appState = InitialAppState
    /\ timers = <<>>

NextHook ==
    \/ ReorderCards(Caller, args.currentCards) /\ UNCHANGED callerVars
    \/ MoveCardUp(Caller, args.cardId, args.currentCards) /\ UNCHANGED callerVars
    \/ MoveCardDown(Caller, args.cardId, args.currentCards) /\ UNCHANGED callerVars
    \/ \E title \in TitleInputs : CreateCard(Caller, title) /\ UNCHANGED callerVars
    \/ \E title \in EditedTitles :
          UpdateCard(Caller, args.cardId, title) /\ UNCHANGED callerVars
    \/ DeleteCard(Caller, args.cardId) /\ UNCHANGED callerVars
    \/ \E k \in DOMAIN calls : CommitApplied(k) /\ UNCHANGED callerVars
    \/ \E k \in DOMAIN calls, message \in StorageErrors :
          CommitFailed(k, message) /\ UNCHANGED callerVars
    \/ \E k \in DOMAIN calls : CreateGetDocs(k) /\ UNCHANGED callerVars
    \/ \E k \in DOMAIN calls : CreateAddDoc(k) /\ UNCHANGED callerVars
    \/ \E k \in DOMAIN calls : CreateUpdateDeck(k) /\ UNCHANGED callerVars
    \/ \E k \in DOMAIN calls : UpdateUpdateDoc(k) /\ UNCHANGED callerVars
    \/ \E k \in DOMAIN calls : UpdateUpdateDeck(k) /\ UNCHANGED callerVars
    \/ \E k \in DOMAIN calls : DeleteDeleteDoc(k) /\ UNCHANGED callerVars
    \/ \E k \in DOMAIN calls : DeleteGetDocs(k) /\ UNCHANGED callerVars
    \/ \E k \in DOMAIN calls : DeleteUpdateDeck(k) /\ UNCHANGED callerVars
    \/ \E k \in DOMAIN calls, message \in StorageErrors :
          RequestFailed(k, message) /\ UNCHANGED callerVars
    \/ \E k \in DOMAIN calls : Resolve(k) /\ UNCHANGED callerVars
    \/ \E k \in DOMAIN calls : Reject(k) /\ UNCHANGED callerVars

SpecHook == InitHook /\ [][NextHook]_vars

\* ------------------------------------------------- two clients reorder one deck

\* Every client is signed in and holds the deck's cards in some order; the
\* calls of different clients await their commits at the same time.
InitRace ==
    /\ \E n \in 2..MaxCards :
          /\ cards = InitialCards(n)
          /\ deck = InitialDeck(n)
          /\ nextId = n + 1
          /\ args \in [cardId : 1..n, currentCards : Orderings(1..n)]
    /\ clock = 0
    /\ user = [c \in Clients |-> TRUE]
    /\ loading = [c \in Clients |-> FALSE]
    /\ error = [c \in Clients |-> Null]
    /\ calls = [k \in 1..MaxOverlap |-> IdleCall]
    /\ event = NoEvent
    /\ screen = [c \in Clients |-> ScreenOf(<<>>)]
    /\ trip = NoTrip
    /\ appState = InitialAppState
    /\ timers = <<>>

NextRace ==
    \/ \E c \in Clients :
          ReorderCards(c, args.currentCards) /\ UNCHANGED callerVars
    \/ \E c \in Clients :
          MoveCardUp(c, args.cardId, args.currentCards) /\ UNCHANGED callerVars
    \/ \E c \in Clients :
          MoveCardDown(c, args.cardId, args.currentCards) /\ UNCHANGED callerVars
    \/ \E k \in DOMAIN calls : CommitApplied(k) /\ UNCHANGED callerVars
    \/ \E k \in DOMAIN calls, message \in StorageErrors :
          CommitFailed(k, message) /\ UNCHANGED callerVars
    \/ \E k \in DOMAIN calls : Resolve(k) /\ UNCHANGED callerVars
    \/ \E k \in DOMAIN calls : Reject(k) /\ UNCHANGED callerVars

SpecRace == InitRace /\ [][NextRace]_vars

\* ---------------------------------------------------------------- CardScreen

\* What can be typed into the search box.
Queries == {"", "a"}

\* String.prototype.includes on the titles and queries of the model (the
\* bodies of the cards are empty).
Includes(title, query) == query = "" \/ title = query

RECURSIVE Filter(_, _)
Filter(list, query) ==
    IF Len(list) = 0 THEN <<>>
    ELSE IF Includes(Head(list).title, query)
         THEN <<Head(list)>> \o Filter(Tail(list), query)
         ELSE Filter(Tail(list), query)

\* filteredCards of the client's screen.
FilteredCards(c) ==
    IF Trim(screen[c].searchQuery) = "" THEN screen[c].cards
    ELSE Filter(screen[c].cards, Trim(screen[c].searchQuery))

Ids(list) == [i \in 1..Len(list) |-> list[i].id]

\* canMoveDown with index < filteredCards.length.
CanMoveDownLoose(c, index) == index < Len(FilteredCards(c))

\* canMoveUp with index >= 0.
CanMoveUpLoose(c, index) == index >= 0

\* The props CardScreen gives the CardListItem at position index.
CanMoveUp(c, index) == index > 0
CanMoveDown(c, index) == index < Len(FilteredCards(c)) - 1
IsReordering(c) == loading[c]

\* The disabled attribute of the two move buttons.
MoveUpDisabled(c, index) == ~CanMoveUp(c, index) \/ IsReordering(c)
MoveDownDisabled(c, index) == ~CanMoveDown(c, index) \/ IsReordering(c)

\* The modal that is rendered on top of the page, "none" when none is.
TopModal(c) ==
    IF screen[c].showDeleteModal /\ screen[c].selectedCard # <<>> THEN "delete"
    ELSE IF screen[c].showEditModal /\ screen[c].selectedCard # <<>> THEN "edit"
    ELSE IF screen[c].showCreateModal THEN "create"
    ELSE "none"

\* The card list is rendered for a signed-in user and no modal covers it.
ListShown(c) == user[c] /\ TopModal(c) = "none"

\* The positions (0-based) of the CardListItems on the client's screen.
Positions(c) == 0..(Len(FilteredCards(c)) - 1)

\* A step of the screen that calls no operation of the hook.
ScreenStep(c, next) ==
    /\ screen' = [screen EXCEPT ![c] = next]
    /\ screen' # screen
    /\ event' = NoEvent
    /\ UNCHANGED <<cards, deck, clock, user, loading, error, calls, args, nextId, trip, appVars>>

\* The stored cards of the deck in ascending orderIndex; cards that share
\* an orderIndex come in either order.
StoredInOrder ==
    {s \in Orderings(DeckCards(cards)) :
        \A i, j \in 1..Len(s) : i < j => cards[s[i]].orderIndex <= cards[s[j]].orderIndex}

\* useCards delivers the deck's cards as they are stored now.
Snapshot(c) ==
    /\ user[c]
    /\ \E s \in StoredInOrder :
          ScreenStep(c, [screen[c] EXCEPT !.cards =
                [i \in 1..Len(s) |-> [id |-> s[i], title |-> cards[s[i]].title]]])

\* onChange of the search box, which is rendered when there are cards.
SetSearchQuery(c, query) ==
    /\ ListShown(c)
    /\ Len(screen[c].cards) > 0
    /\ ScreenStep(c, [screen[c] EXCEPT !.searchQuery = query])

\* A click on an enabled move-up button: handleMoveCardUp(card.id).
ClickMoveUp(c, index) ==
    /\ ListShown(c)
    /\ index \in Positions(c)
    /\ ~MoveUpDisabled(c, index)
    /\ MoveCardUp(c, FilteredCards(c)[index + 1].id, Ids(FilteredCards(c)))
    /\ UNCHANGED callerVars

\* A click on an enabled move-down button: handleMoveCardDown(card.id).
ClickMoveDown(c, index) ==
    /\ ListShown(c)
    /\ index \in Positions(c)
    /\ ~MoveDownDisabled(c, index)
    /\ MoveCardDown(c, FilteredCards(c)[index + 1].id, Ids(FilteredCards(c)))
    /\ UNCHANGED callerVars

\* onClick of 'Create New Card' / 'Create Your First Card'.
OpenCreateModal(c) ==
    /\ ListShown(c)
    /\ ScreenStep(c, [screen[c] EXCEPT !.showCreateModal = TRUE])

\* Cancel of the create modal.
CancelCreate(c) ==
    /\ user[c]
    /\ TopModal(c) = "create"
    /\ ScreenStep(c, [screen[c] EXCEPT !.showCreateModal = FALSE])

\* Create of the create modal, enabled when the title is not blank:
\* handleCreateCard.
ClickCreate(c, title) ==
    /\ user[c]
    /\ TopModal(c) = "create"
    /\ Trim(title) # ""
    /\ CreateCard(c, Trim(title))
    /\ UNCHANGED callerVars

\* The edit button disabled while the hook is loading.
ClickEditWhenIdle(c, index) ==
    /\ ListShown(c)
    /\ ~IsReordering(c)
    /\ index \in Positions(c)
    /\ ScreenStep(c, [screen[c] EXCEPT !.selectedCard = <<FilteredCards(c)[index + 1].id>>,
                                        !.showEditModal = TRUE])

\* The edit button of a CardListItem: handleCardEdit, openEditModal.
ClickEdit(c, index) ==
    /\ ListShown(c)
    /\ index \in Positions(c)
    /\ ScreenStep(c, [screen[c] EXCEPT !.selectedCard = <<FilteredCards(c)[index + 1].id>>,
                                        !.showEditModal = TRUE])

\* Cancel of the edit modal.
CancelEdit(c) ==
    /\ user[c]
    /\ TopModal(c) = "edit"
    /\ ScreenStep(c, [screen[c] EXCEPT !.showEditModal = FALSE, !.selectedCard = <<>>])

\* Save of the edit modal: handleEditCard.
ClickSave(c, title) ==
    /\ user[c]
    /\ TopModal(c) = "edit"
    /\ Trim(title) # ""
    /\ UpdateCard(c, screen[c].selectedCard[1], Trim(title))
    /\ UNCHANGED callerVars

\* The delete button of a CardListItem: handleCardDelete, openDeleteModal.
ClickDelete(c, index) ==
    /\ ListShown(c)
    /\ index \in Positions(c)
    /\ ScreenStep(c, [screen[c] EXCEPT !.selectedCard = <<FilteredCards(c)[index + 1].id>>,
                                        !.showDeleteModal = TRUE])

\* Cancel of the delete modal.
CancelDelete(c) ==
    /\ user[c]
    /\ TopModal(c) = "delete"
    /\ ScreenStep(c, [screen[c] EXCEPT !.showDeleteModal = FALSE, !.selectedCard = <<>>])

\* Delete of the delete modal: handleDeleteCard.
ConfirmDelete(c) ==
    /\ user[c]
    /\ TopModal(c) = "delete"
    /\ DeleteCard(c, screen[c].selectedCard[1])
    /\ UNCHANGED callerVars

\* What the handler of CardScreen that awaited the call does after it.
AfterAwait(s, kind) ==
    CASE kind = "createCard" -> [s EXCEPT !.showCreateModal = FALSE]
      [] kind = "updateCard" -> [s EXCEPT !.showEditModal = FALSE, !.selectedCard = <<>>]
      [] kind = "deleteCard" -> [s EXCEPT !.showDeleteModal = FALSE, !.selectedCard = <<>>]
      [] OTHER -> s

\* The call resolves: the hook's own steps, then the handler's.
Resolved(k) ==
    /\ Resolve(k)
    /\ screen' = [screen EXCEPT ![calls[k].client] = AfterAwait(@, calls[k].kind)]
    /\ UNCHANGED <<trip, appVars>>

\* The call rejects in a handler that has no try/catch around its await: the
\* rejection of the handler's promise is handled by nobody.
RejectedUncaught(k) ==
    /\ Reject(k)
    /\ screen' = [screen EXCEPT ![calls[k].client].unhandled = TRUE]
    /\ UNCHANGED <<trip, appVars>>

\* The call rejects: the handler's catch block logs the error.
Rejected(k) == Reject(k) /\ UNCHANGED callerVars

\* The screen of the signed-in client over a deck that was loaded in display
\* order: a one-card deck on which calls run one at a time and every write is
\* still to come, or a full deck with overlapping calls and one write to come.
InitUI ==
    /\ \E n \in {1, MaxCards} :
          /\ cards = InitialCards(n)
          /\ deck = InitialDeck(n)
          /\ nextId = n + 1
          /\ clock = IF n = MaxCards THEN MaxClock - 1 ELSE 0
          /\ calls = [k \in 1..(IF n = MaxCards THEN MaxOverlap ELSE 1) |-> IdleCall]
    /\ user = [c \in Clients |-> c = Caller]
    /\ loading = [c \in Clients |-> FALSE]
    /\ error = [c \in Clients |-> Null]
    /\ event = NoEvent
    /\ args = [cardId |-> MissingId, currentCards |-> <<>>]
    /\ screen = [c \in Clients |->
          ScreenOf([i \in 1..Cardinality(DOMAIN cards) |-> [id |-> i, title |-> cards[i].title]])]
    /\ trip = NoTrip
    /\ appState = InitialAppState
    /\ timers = <<>>

NextUI ==
    \/ \E c \in Clients : Snapshot(c)
    \/ \E c \in Clients, query \in Queries : SetSearchQuery(c, query)
    \/ \E c \in Clients, index \in 0..(MaxCards - 1) : ClickMoveUp(c, index)
    \/ \E c \in Clients, index \in 0..(MaxCards - 1) : ClickMoveDown(c, index)
    \/ \E c \in Clients : OpenCreateModal(c)
    \/ \E c \in Clients : CancelCreate(c)
    \/ \E c \in Clients, title \in TitleInputs : ClickCreate(c, title)
    \/ \E c \in Clients, index \in 0..(MaxCards - 1) : ClickEdit(c, index)
    \/ \E c \in Clients : CancelEdit(c)
    \/ \E c \in Clients, title \in EditedTitles : ClickSave(c, title)
    \/ \E c \in Clients, index \in 0..(MaxCards - 1) : ClickDelete(c, index)
    \/ \E c \in Clients : CancelDelete(c)
    \/ \E c \in Clients : ConfirmDelete(c)
    \/ \E k \in DOMAIN calls : CommitApplied(k) /\ UNCHANGED callerVars
    \/ \E k \in DOMAIN calls, message \in StorageErrors :
          CommitFailed(k, message) /\ UNCHANGED callerVars
    \/ \E k \in DOMAIN calls : CreateGetDocs(k) /\ UNCHANGED callerVars
    \/ \E k \in DOMAIN calls : CreateAddDoc(k) /\ UNCHANGED callerVars
    \/ \E k \in DOMAIN calls : CreateUpdateDeck(k) /\ UNCHANGED callerVars
    \/ \E k \in DOMAIN calls : UpdateUpdateDoc(k) /\ UNCHANGED callerVars
    \/ \E k \in DOMAIN calls : UpdateUpdateDeck(k) /\ UNCHANGED callerVars
    \/ \E k \in DOMAIN calls : DeleteDeleteDoc(k) /\ UNCHANGED callerVars
    \/ \E k \in DOMAIN calls : DeleteGetDocs(k) /\ UNCHANGED callerVars
    \/ \E k \in DOMAIN calls : DeleteUpdateDeck(k) /\ UNCHANGED callerVars
    \/ \E k \in DOMAIN calls, message \in StorageErrors :
          RequestFailed(k, message) /\ UNCHANGED callerVars
    \/ \E k \in DOMAIN calls : Resolved(k)
    \/ \E k \in DOMAIN calls : Rejected(k)

SpecUI == InitUI /\ [][NextUI]_vars

\* ------------------------------------------------ two clients create cards

\* The writes two createCard calls make: an addDoc and an updateDoc each.
WritesOfTwoCreates == 4

\* Two signed-in clients on a deck with room for two more cards; the server's
\* clock is WritesOfTwoCreates ticks before MaxClock and the deck was last
\* written at that time.
InitCreate ==
    /\ \E n \in 0..(MaxCards - 2) :
          /\ cards = [id \in 1..n |-> [InitialCards(n)[id] EXCEPT
                                            !.updatedAt = MaxClock - WritesOfTwoCreates]]
          /\ deck = [InitialDeck(n) EXCEPT !.updatedAt = MaxClock - WritesOfTwoCreates]
          /\ nextId = n + 1
    /\ clock = MaxClock - WritesOfTwoCreates
    /\ user = [c \in Clients |-> TRUE]
    /\ loading = [c \in Clients |-> FALSE]
    /\ error = [c \in Clients |-> Null]
    /\ calls = [k \in 1..NumClients |-> IdleCall]
    /\ event = NoEvent
    /\ args = [cardId |-> MissingId, currentCards |-> <<>>]
    /\ screen = [c \in Clients |-> ScreenOf(<<>>)]
    /\ trip = NoTrip
    /\ appState = InitialAppState
    /\ timers = <<>>

\* Each client calls createCard, one call at a time.
NextCreate ==
    \/ \E c \in Clients, title \in TitleInputs :
          /\ \A k \in DOMAIN calls : calls[k].pc # "idle" => calls[k].client # c
          /\ CreateCard(c, title)
          /\ UNCHANGED callerVars
    \/ \E k \in DOMAIN calls : CreateGetDocs(k) /\ UNCHANGED callerVars
    \/ \E k \in DOMAIN calls : CreateAddDoc(k) /\ UNCHANGED callerVars
    \/ \E k \in DOMAIN calls : CreateUpdateDeck(k) /\ UNCHANGED callerVars
    \/ \E k \in DOMAIN calls, message \in StorageErrors :
          RequestFailed(k, message) /\ UNCHANGED callerVars
    \/ \E k \in DOMAIN calls : Resolve(k) /\ UNCHANGED callerVars
    \/ \E k \in DOMAIN calls : Reject(k) /\ UNCHANGED callerVars

SpecCreate == InitCreate /\ [][NextCreate]_vars

\* -------------------------------------------- reorderCards with any list

\* The deck of the hook holds all cards but the last one, which is a card
\* of another deck; the caller passes any list of identifiers of cards.
InitForeign ==
    /\ cards = [id \in CardIds |->
          IF id < MaxCards THEN InitialCards(MaxCards - 1)[id]
          ELSE [orderIndex |-> 0, updatedAt |-> 0, title |-> InitialTitle(id),
                deckId |-> OtherDeckId]]
    /\ deck = InitialDeck(MaxCards - 1)
    /\ nextId = MaxCards + 1
    /\ args \in [cardId : {MissingId}, currentCards : IdLists]
    /\ clock = 0
    /\ user \in {u \in [Clients -> BOOLEAN] : \A c \in Clients \ {Caller} : ~u[c]}
    /\ loading = [c \in Clients |-> FALSE]
    /\ error = [c \in Clients |-> Null]
    /\ calls = [k \in CallIds |-> IdleCall]
    /\ event = NoEvent
    /\ screen = [c \in Clients |-> ScreenOf(<<>>)]
    /\ trip = NoTrip
    /\ appState = InitialAppState
    /\ timers = <<>>

NextForeign ==
    \/ ReorderCards(Caller, args.currentCards) /\ UNCHANGED callerVars
    \/ \E k \in DOMAIN calls : CommitApplied(k) /\ UNCHANGED callerVars
    \/ \E k \in DOMAIN calls, message \in StorageErrors :
          CommitFailed(k, message) /\ UNCHANGED callerVars
    \/ \E k \in DOMAIN calls : Resolve(k) /\ UNCHANGED callerVars
    \/ \E k \in DOMAIN calls : Reject(k) /\ UNCHANGED callerVars
    \/ Fetch /\ UNCHANGED callerVars

SpecForeign == InitForeign /\ [][NextForeign]_vars

\* ------------------------------------------ a move up followed by a move down

\* The lists of two or more distinct cards of the set S.
ListsOf(S) == UNION {Orderings(T) : T \in {U \in SUBSET S : Cardinality(U) >= 2}}

\* A deck that was created with MaxCards cards of which the cards of kept are
\* left (deleteCard does not renumber the others); the caller is signed in
\* and holds a list of cards of the deck, the second of which it will move.
InitTrip ==
    /\ \E kept \in SUBSET (1..MaxCards) :
          /\ Cardinality(kept) >= 2
          /\ cards = [id \in kept |-> InitialCards(MaxCards)[id]]
          /\ deck = InitialDeck(Cardinality(kept))
          /\ \E list \in ListsOf(kept) :
                /\ args = [cardId |-> list[2], currentCards |-> list]
                /\ trip = [phase |-> "start", docs |-> cards, reordered |-> <<>>,
                           final |-> <<>>]
    /\ nextId = MaxCards + 1
    /\ clock = 0
    /\ user = [c \in Clients |-> c = Caller]
    /\ loading = [c \in Clients |-> FALSE]
    /\ error = [c \in Clients |-> Null]
    /\ calls = [k \in CallIds |-> IdleCall]
    /\ event = NoEvent
    /\ screen = [c \in Clients |-> ScreenOf(<<>>)]
    /\ appState = InitialAppState
    /\ timers = <<>>

\* await moveCardUp(cardId, currentCards)
TripMoveCardUp ==
    /\ trip.phase = "start"
    /\ MoveCardUp(Caller, args.cardId, args.currentCards)
    /\ trip' = [trip EXCEPT !.phase = "up"]
    /\ UNCHANGED <<screen, appVars>>

\* await moveCardDown(cardId, reordered), reordered being the list the first
\* call committed.
TripMoveCardDown ==
    /\ trip.phase = "moved up"
    /\ MoveCardDown(Caller, args.cardId, trip.reordered)
    /\ trip' = [trip EXCEPT !.phase = "down"]
    /\ UNCHANGED <<screen, appVars>>

\* The awaited move resolves: the caller goes on.
TripResolved(k) ==
    /\ Resolve(k)
    /\ trip' = IF trip.phase = "up"
               THEN [trip EXCEPT !.phase = "moved up", !.reordered = calls[k].cardIds]
               ELSE [trip EXCEPT !.phase = "done", !.final = calls[k].cardIds]
    /\ UNCHANGED <<screen, appVars>>

\* The awaited move rejects: the caller gives up.
TripRejected(k) ==
    /\ Reject(k)
    /\ trip' = [trip EXCEPT !.phase = "given up"]
    /\ UNCHANGED <<screen, appVars>>

NextTrip ==
    \/ TripMoveCardUp
    \/ TripMoveCardDown
    \/ \E k \in DOMAIN calls : CommitApplied(k) /\ UNCHANGED callerVars
    \/ \E k \in DOMAIN calls, message \in StorageErrors :
          CommitFailed(k, message) /\ UNCHANGED callerVars
    \/ \E k \in DOMAIN calls : TripResolved(k)
    \/ \E k \in DOMAIN calls : TripRejected(k)

SpecTrip == InitTrip /\ [][NextTrip]_vars

\* ------------------------------------------------------------------ claims
Distinct(s) == \A i, j \in 1..Len(s) : i # j => s[i] # s[j]

\* The orderIndex a batch built from cardIds leaves on id: the 0-based
\* position of id in cardIds (the last one, should id occur twice).
NewIndex(cardIds, id) ==
    (CHOOSE i \in 1..Len(cardIds) :
        /\ cardIds[i] = id
        /\ \A j \in (i + 1)..Len(cardIds) : cardIds[j] # id) - 1

\* The call of slot k is awaiting batch.commit() and this step settles the
\* commit on the server.
CommitSettles(k) == calls[k].pc = "commit" /\ calls'[k].pc # "commit"

SignedIn(c) == user[c]

\* C1: whatever a reader fetches is the deck as stored, and the step in which
\* the commit of a reorder takes effect leaves the stored orderIndex values
\* either all as they were (pre-commit) or with every listed card at its new
\* index and every other card as it was (post-commit): no step leaves some
\* listed cards at their new index and others at their old one.
C1_ReaderSeesPreOrPost ==
    [][/\ event'.type = "fetched" => event'.docs = DeckDocs(cards) /\ cards' = cards
       /\ \A k \in CallIds :
            CommitSettles(k) =>
              LET cardIds == calls[k].cardIds
              IN  \/ DeckDocs(cards') = DeckDocs(cards)
                  \/ /\ DOMAIN cards' = DOMAIN cards
                     /\ \A id \in DOMAIN cards :
                          cards'[id].orderIndex =
                            IF id \in Range(cardIds) THEN NewIndex(cardIds, id)
                            ELSE cards[id].orderIndex
      ]_vars

\* A reader has fetched the deck while a move is awaiting its resolution and
\* has seen the whole new order <<2, 1, 3>> of the deck <<1, 2, 3>>.
C1_Witness ==
    /\ event.type = "fetched"
    /\ \E k \in CallIds :
          /\ calls[k].pc = "applied"
          /\ calls[k].cardIds = <<2, 1, 3>>
    /\ loading # [c \in Clients |-> FALSE]
    /\ event.docs = (1 :> 1 @@ 2 :> 0 @@ 3 :> 2)

\* C2: when the commit of a reorder (issued by reorderCards, moveCardUp or
\* moveCardDown) fails, neither the step in which it fails nor the step in
\* which the call rejects changes any card's orderIndex or updatedAt or the
\* deck's updatedAt.
C2_FailedReorderWritesNothing ==
    [][\A k \in CallIds :
          \/ calls[k].pc = "commit" /\ calls'[k].pc = "failed"
          \/ calls[k].pc = "failed" /\ calls'[k].pc = "idle"
          => /\ cards' = cards
             /\ deck' = deck
             /\ (calls'[k].pc = "idle" =>
                   event'.type = "rejected" /\ event'.error \in StorageErrors)
      ]_vars

\* A moveCardUp has rejected with the storage error after an earlier commit
\* had been applied.
C2_Witness ==
    /\ event.type = "rejected"
    /\ event.kind = "moveCardUp"
    /\ event.error \in StorageErrors
    /\ clock = 1
    /\ Len(args.currentCards) = 3

\* C3: the step that applies the commit of n >= 1 distinct identifiers leaves
\* the card named at position k (0-based) with orderIndex k: the values
\* assigned are exactly 0..n-1, and the listed cards read in ascending
\* orderIndex are the supplied sequence.
C3_ReorderAssignsPositions ==
    [][\A k \in CallIds :
          LET cardIds == calls[k].cardIds
              n == Len(cardIds)
          IN  calls[k].pc = "commit" /\ calls'[k].pc = "applied" /\ Distinct(cardIds) =>
                /\ n >= 1
                /\ \A i \in 1..n : cards'[cardIds[i]].orderIndex = i - 1
                /\ {cards'[id].orderIndex : id \in Range(cardIds)} = 0..(n - 1)
                /\ \A i, j \in 1..n :
                      i < j => cards'[cardIds[i]].orderIndex < cards'[cardIds[j]].orderIndex
      ]_vars

\* reorderCards(<<3, 1, 2>>) has been applied.
C3_Witness ==
    \E k \in CallIds :
        /\ calls[k].pc = "applied"
        /\ calls[k].kind = "reorderCards"
        /\ calls[k].cardIds = <<3, 1, 2>>
        /\ cards[3].orderIndex = 0 /\ cards[1].orderIndex = 1 /\ cards[2].orderIndex = 2

\* The list given to the moves has n >= 2 distinct identifiers and holds the
\* target at position i (0-based).
TargetAt(i) ==
    /\ Distinct(args.currentCards)
    /\ Len(args.currentCards) >= 2
    /\ i + 1 \in 1..Len(args.currentCards)
    /\ args.currentCards[i + 1] = args.cardId

\* out is list with the elements of the (0-based) positions i and i + 1
\* exchanged and nothing else changed.
SwappedAt(list, out, i) ==
    /\ Len(out) = Len(list)
    /\ out[i + 1] = list[i + 2]
    /\ out[i + 2] = list[i + 1]
    /\ \A j \in 1..Len(list) : j \notin {i + 1, i + 2} => out[j] = list[j]
    /\ Range(out) = Range(list)
    /\ Distinct(out)

\* C4: for a list of n >= 2 distinct identifiers and a target at position i
\* in 1..n-1, moveCardUp of a signed-in client does not throw its bounds
\* error and hands reorderCards the list with positions i-1 and i swapped: a
\* permutation of the input of the same length.
C4_MoveUpSwapsWithPrevious ==
    \A i \in 1..(MaxLen - 1) :
        TargetAt(i) =>
          /\ \A k \in CallIds :
                calls[k].pc # "idle" /\ calls[k].kind = "moveCardUp" =>
                  SwappedAt(args.currentCards, calls[k].cardIds, i - 1)
          /\ event.type = "rejected" /\ event.kind = "moveCardUp" /\ SignedIn(event.client) =>
                event.error \in StorageErrors

\* moveCardUp(3, <<1, 2, 3>>) is awaiting the commit of <<1, 3, 2>>.
C4_Witness ==
    /\ args = [cardId |-> 3, currentCards |-> <<1, 2, 3>>]
    /\ \E k \in CallIds :
          /\ calls[k].pc = "commit"
          /\ calls[k].kind = "moveCardUp"
          /\ calls[k].cardIds = <<1, 3, 2>>

\* C5: for a list of n >= 2 distinct identifiers and a target at position i
\* in 0..n-2, moveCardDown of a signed-in client does not throw its bounds
\* error and hands reorderCards the list with positions i and i+1 swapped:
\* one adjacent pair exchanged, a permutation of the input of the same length.
C5_MoveDownSwapsWithNext ==
    \A i \in 0..(MaxLen - 2) :
        TargetAt(i) /\ i + 2 <= Len(args.currentCards) =>
          /\ \A k \in CallIds :
                calls[k].pc # "idle" /\ calls[k].kind = "moveCardDown" =>
                  SwappedAt(args.currentCards, calls[k].cardIds, i)
          /\ event.type = "rejected" /\ event.kind = "moveCardDown" /\ SignedIn(event.client) =>
                event.error \in StorageErrors

\* moveCardDown(2, <<1, 2, 3>>) is awaiting the commit of <<1, 3, 2>>.
C5_Witness ==
    /\ args = [cardId |-> 2, currentCards |-> <<1, 2, 3>>]
    /\ \E k \in CallIds :
          /\ calls[k].pc = "commit"
          /\ calls[k].kind = "moveCardDown"
          /\ calls[k].cardIds = <<1, 3, 2>>

\* list is the whole deck in display order, stored with orderIndex 0..n-1.
IsStoredDeck(list) ==
    /\ Distinct(list)
    /\ Range(list) = DOMAIN cards
    /\ \A i \in 1..Len(list) : cards[list[i]].orderIndex = i - 1

\* C6: when the list given to a move is the whole deck in display order,
\* stored with orderIndex 0..n-1, the step that applies the move's commit
\* exchanges the orderIndex of the moved card and of its neighbour and leaves
\* the orderIndex of every other card of the deck as it was.
C6_MoveExchangesTwoIndexes ==
    [][\A k \in CallIds :
          /\ calls[k].pc = "commit" /\ calls'[k].pc = "applied"
          /\ calls[k].kind \in {"moveCardUp", "moveCardDown"}
          /\ IsStoredDeck(args.currentCards)
          => LET moved == args.cardId
                 at == cards[moved].orderIndex + 1
                 neighbour == args.currentCards[IF calls[k].kind = "moveCardUp"
                                                THEN at - 1 ELSE at + 1]
             IN  /\ DOMAIN cards' = DOMAIN cards
                 /\ cards'[moved].orderIndex = cards[neighbour].orderIndex
                 /\ cards'[neighbour].orderIndex = cards[moved].orderIndex
                 /\ \A id \in DOMAIN cards \ {moved, neighbour} :
                        cards'[id].orderIndex = cards[id].orderIndex
      ]_vars

\* moveCardDown(1, <<1, 2, 3>>) on the deck 1, 2, 3 has been applied: card 1
\* has orderIndex 1, card 2 has 0, card 3 keeps 2.
C6_Witness ==
    /\ args = [cardId |-> 1, currentCards |-> <<1, 2, 3>>]
    /\ clock = 1
    /\ \E k \in CallIds : calls[k].pc = "applied" /\ calls[k].kind = "moveCardDown"
    /\ DeckDocs(cards) = (1 :> 1 @@ 2 :> 0 @@ 3 :> 2)

\* C7: moveCardUp of a signed-in client on the card at position 0 of the list
\* rejects with 'Card cannot be moved up', awaits no commit and leaves the
\* stored documents as they were.
C7_MoveUpOfFirstIsInvalid ==
    [][\A c \in Clients :
          /\ SignedIn(c)
          /\ Len(args.currentCards) >= 1
          /\ args.currentCards[1] = args.cardId
          /\ MoveCardUp(c, args.cardId, args.currentCards)
          => /\ event' = Settled("rejected", c, "moveCardUp", ErrMoveUp)
             /\ UNCHANGED <<cards, deck, clock, calls>>
      ]_vars

\* moveCardUp(1, <<1, 2, 3>>) has rejected with the invalid-move error.
C7_Witness ==
    /\ args = [cardId |-> 1, currentCards |-> <<1, 2, 3>>]
    /\ event.type = "rejected"
    /\ event.kind = "moveCardUp"
    /\ event.error = ErrMoveUp

\* C8: moveCardDown of a signed-in client on the card at the last position of
\* the list, or on an empty list with any identifier, rejects with 'Card
\* cannot be moved down' and awaits no commit: the stored documents stay as
\* they were.
C8_MoveDownOfLastIsInvalid ==
    [][\A c \in Clients :
          /\ SignedIn(c)
          /\ \/ Len(args.currentCards) = 0
             \/ /\ args.currentCards[Len(args.currentCards)] = args.cardId
                /\ \A j \in 1..(Len(args.currentCards) - 1) :
                      args.currentCards[j] # args.cardId
          /\ MoveCardDown(c, args.cardId, args.currentCards)
          => /\ event' = Settled("rejected", c, "moveCardDown", ErrMoveDown)
             /\ UNCHANGED <<cards, deck, clock, calls>>
      ]_vars

\* moveCardDown(3, <<1, 2, 3>>) has rejected with the invalid-move error.
C8_Witness ==
    /\ args = [cardId |-> 3, currentCards |-> <<1, 2, 3>>]
    /\ event.type = "rejected"
    /\ event.kind = "moveCardDown"
    /\ event.error = ErrMoveDown

\* C9: moveCardUp and moveCardDown of a signed-in client with a target that
\* does not occur in the list reject with their invalid-move error, whatever
\* the list holds, and await no commit: the stored documents stay as they
\* were.
C9_MoveOfAbsentIsInvalid ==
    [][\A c \in Clients :
          SignedIn(c) /\ args.cardId \notin Range(args.currentCards) =>
            /\ MoveCardUp(c, args.cardId, args.currentCards) =>
                  /\ event' = Settled("rejected", c, "moveCardUp", ErrMoveUp)
                  /\ UNCHANGED <<cards, deck, clock, calls>>
            /\ MoveCardDown(c, args.cardId, args.currentCards) =>
                  /\ event' = Settled("rejected", c, "moveCardDown", ErrMoveDown)
                  /\ UNCHANGED <<cards, deck, clock, calls>>
      ]_vars

\* moveCardDown('non-existent-card', <<1, 2>>) has rejected with the
\* invalid-move error.
C9_Witness ==
    /\ args = [cardId |-> MissingId, currentCards |-> <<1, 2>>]
    /\ event.type = "rejected"
    /\ event.kind = "moveCardDown"
    /\ event.error = ErrMoveDown

\* C10: reorderCards of a signed-in client with an empty list rejects with
\* 'Card IDs are required' and awaits no commit: no card and not the deck's
\* updatedAt is written.
C10_ReorderOfNothingIsInvalid ==
    [][\A c \in Clients :
          SignedIn(c) /\ Len(args.currentCards) = 0 /\ ReorderCards(c, args.currentCards)
          => /\ event' = Settled("rejected", c, "reorderCards", ErrCardIds)
             /\ UNCHANGED <<cards, deck, clock, calls>>
      ]_vars

\* reorderCards(<<>>) has rejected with the invalid-argument error on a deck
\* of three cards.
C10_Witness ==
    /\ args.currentCards = <<>>
    /\ event.type = "rejected"
    /\ event.kind = "reorderCards"
    /\ event.error = ErrCardIds
    /\ DOMAIN cards = 1..3

\* The calls of client c that have passed their precondition checks and have
\* not yet resolved or rejected.
InFlight(c) == {k \in DOMAIN calls : calls[k].pc # "idle" /\ calls[k].client = c}

\* C11: while there is no current user, every step of the hook is a call that
\* rejects with 'User must be authenticated': each of reorderCards,
\* moveCardUp, moveCardDown, createCard, updateCard and deleteCard rejects
\* that way, starts no request (so nothing is read) and leaves the card
\* documents, the deck document and the hook's loading and error as they were.
C11_UnauthenticatedWritesNothing ==
    [][~user[Caller] =>
          /\ UNCHANGED <<cards, deck, clock, nextId, calls, loading, error>>
          /\ \A k \in DOMAIN calls : calls[k].pc = "idle"
          /\ event' = Settled("rejected", Caller, event'.kind, ErrAuth)
          /\ ReorderCards(Caller, args.currentCards) => event'.kind = "reorderCards"
          /\ MoveCardUp(Caller, args.cardId, args.currentCards) => event'.kind = "moveCardUp"
          /\ MoveCardDown(Caller, args.cardId, args.currentCards) => event'.kind = "moveCardDown"
          /\ \A title \in TitleInputs :
                CreateCard(Caller, title) => event'.kind = "createCard"
          /\ \A title \in EditedTitles :
                UpdateCard(Caller, args.cardId, title) => event'.kind = "updateCard"
          /\ DeleteCard(Caller, args.cardId) => event'.kind = "deleteCard"
      ]_vars

\* deleteCard(3) of a caller who is not signed in has rejected with the
\* unauthenticated error; the deck still has its three cards.
C11_Witness ==
    /\ ~user[Caller]
    /\ event = Settled("rejected", Caller, "deleteCard", ErrAuth)
    /\ args.cardId = 3
    /\ DOMAIN cards = 1..3
    /\ deck.cardCount = 3

\* C12: whenever a call of a client has passed its precondition checks and
\* has not yet resolved, the client's loading flag is true, also when several
\* calls of the client overlap and one of them resolves before the others.
C12_LoadingWhileInFlight ==
    \A c \in Clients : InFlight(c) # {} => loading[c]

Moves == {"moveCardUp", "moveCardDown"}

\* The calls of client c whose batch.commit() has been sent and has neither
\* been applied nor failed.
CommitsInFlight(c) == {k \in InFlight(c) : calls[k].pc = "commit"}

\* C13: at most one reorder commit of a client is in flight at any time,
\* whatever the user does on the client's CardScreen (moves, search, create,
\* edit, delete): while a move is in flight the screen starts no other one.
C13_OneReorderInFlight ==
    \A c \in Clients : Cardinality(CommitsInFlight(c)) <= 1

\* C14: when no call of a client is in flight (every call that set the busy
\* flag has resolved or rejected), the client's loading flag is false and
\* every move button of the client's screen is disabled by its position
\* alone: a failed call never leaves the flag stuck at true.
C14_LoadingClearsWhenIdle ==
    \A c \in Clients :
        InFlight(c) = {} =>
            /\ ~loading[c]
            /\ \A index \in Positions(c) :
                    /\ MoveUpDisabled(c, index) = ~CanMoveUp(c, index)
                    /\ MoveDownDisabled(c, index) = ~CanMoveDown(c, index)

\* A move of the caller has rejected with the error batch.commit() rejected
\* with, no call of the caller is in flight, and the move-up button of the
\* second of the three listed cards is enabled again.
C14_Witness ==
    /\ event.type = "rejected"
    /\ event.client = Caller
    /\ event.kind \in Moves
    /\ event.error \in StorageErrors
    /\ InFlight(Caller) = {}
    /\ Len(FilteredCards(Caller)) = 3
    /\ ~MoveUpDisabled(Caller, 1)

\* C15: a move never swallows a failure.  The bounds check's error and the
\* unauthenticated error reach the caller of the move as a rejection carrying
\* that error; a failed commit reaches it as a rejection carrying the error
\* batch.commit() rejected with; a call whose commit failed never turns into
\* an applied one, and a move resolves only in the step that ends a call
\* whose commit was applied.
C15_MovesPropagateFailures ==
    [][/\ \A c \in Clients :
            LET cardIndex == FindIndex(args.currentCards, args.cardId)
            IN  /\ MoveCardUp(c, args.cardId, args.currentCards) /\ ~SignedIn(c)
                      => event' = Settled("rejected", c, "moveCardUp", ErrAuth)
                /\ MoveCardDown(c, args.cardId, args.currentCards) /\ ~SignedIn(c)
                      => event' = Settled("rejected", c, "moveCardDown", ErrAuth)
                /\ MoveCardUp(c, args.cardId, args.currentCards) /\ SignedIn(c)
                      /\ CannotMoveUp(cardIndex)
                      => event' = Settled("rejected", c, "moveCardUp", ErrMoveUp)
                /\ MoveCardDown(c, args.cardId, args.currentCards) /\ SignedIn(c)
                      /\ CannotMoveDown(cardIndex, Len(args.currentCards))
                      => event' = Settled("rejected", c, "moveCardDown", ErrMoveDown)
       /\ \A k \in DOMAIN calls :
            calls[k].pc = "failed" /\ calls[k].kind \in Moves =>
              /\ calls'[k].pc \in {"failed", "idle"}
              /\ calls'[k].pc = "idle" =>
                    /\ event' = Settled("rejected", calls[k].client, calls[k].kind,
                                        calls[k].message)
                    /\ error'[calls[k].client] = calls[k].message
       /\ event'.type = "resolved" /\ event'.kind \in Moves /\ calls' # calls =>
            \E k \in DOMAIN calls :
                /\ calls[k].pc = "applied" /\ calls'[k].pc = "idle"
                /\ calls[k].client = event'.client
                /\ calls[k].kind = event'.kind
      ]_vars

\* moveCardDown(1, <<1, 2>>) has rejected with the error batch.commit()
\* rejected with, and the hook's error holds its message.
C15_Witness ==
    /\ args = [cardId |-> 1, currentCards |-> <<1, 2>>]
    /\ event.type = "rejected"
    /\ event.kind = "moveCardDown"
    /\ event.error \in StorageErrors
    /\ error[event.client] = event.error
    /\ ~loading[event.client]

\* C20: the step that applies the commit of a reorder leaves the deck's
\* updatedAt strictly greater than it was, in the same step in which the
\* listed cards get their new orderIndex (and the same timestamp); no step
\* changes a stored orderIndex without the deck's updatedAt growing with it,
\* and the deck's updatedAt changes in no other step.
C20_DeckTimestampGrowsWithCommit ==
    [][/\ \A k \in DOMAIN calls :
            calls[k].pc = "commit" /\ calls'[k].pc = "applied" =>
              /\ deck'.updatedAt > deck.updatedAt
              /\ \A id \in Range(calls[k].cardIds) :
                    /\ cards'[id].orderIndex = NewIndex(calls[k].cardIds, id)
                    /\ cards'[id].updatedAt = deck'.updatedAt
       /\ DeckDocs(cards') # DeckDocs(cards) => deck'.updatedAt > deck.updatedAt
       /\ deck'.updatedAt # deck.updatedAt =>
            \E k \in DOMAIN calls : calls[k].pc = "commit" /\ calls'[k].pc = "applied"
       /\ deck'.updatedAt >= deck.updatedAt
      ]_vars

\* A second reorder of the deck has been applied: the deck's updatedAt has
\* grown twice.
C20_Witness ==
    /\ deck.updatedAt = 2
    /\ \E k \in DOMAIN calls : calls[k].pc = "applied" /\ calls[k].kind = "reorderCards"
    /\ \A id \in DOMAIN cards : cards[id].updatedAt = 2
    /\ DOMAIN cards = 1..3

\* C16: when the commits of two clients, each a permutation of the deck's
\* cards, are in flight together and both are applied, the step that applies
\* the later one leaves every card of the deck with the orderIndex the later
\* list gives it, whatever the earlier one had assigned; and a call whose
\* commit was applied stays applied and resolves without an error.
C16_LaterCommitWins ==
    [][/\ \A k, j \in DOMAIN calls :
            /\ calls[j].pc = "applied" /\ calls[k].pc = "commit"
            /\ calls[j].client # calls[k].client
            /\ calls[j].cardIds \in Orderings(DOMAIN cards)
            /\ calls[k].cardIds \in Orderings(DOMAIN cards)
            /\ calls'[k].pc = "applied"
            => /\ DOMAIN cards' = DOMAIN cards
               /\ \A id \in DOMAIN cards :
                     cards'[id].orderIndex = NewIndex(calls[k].cardIds, id)
               /\ calls'[j].pc = "applied"
       /\ \A k \in DOMAIN calls :
            calls[k].pc = "applied" =>
              /\ calls'[k].pc \in {"applied", "idle"}
              /\ calls'[k].pc = "idle" =>
                    /\ event' = Settled("resolved", calls[k].client, calls[k].kind, Null)
                    /\ error'[calls[k].client] = Null
      ]_vars

\* Two clients hold the list <<3, 1, 2>>: one has moved card 1 down (commit
\* of <<3, 2, 1>>), the other has called reorderCards(<<3, 1, 2>>); both
\* commits are applied, the reorder last, and the deck is stored as 3, 1, 2.
C16_Witness ==
    /\ args = [cardId |-> 1, currentCards |-> <<3, 1, 2>>]
    /\ \E k, j \in DOMAIN calls :
          /\ calls[k].pc = "applied" /\ calls[k].kind = "moveCardDown"
          /\ calls[j].pc = "applied" /\ calls[j].kind = "reorderCards"
          /\ calls[k].client # calls[j].client
    /\ clock = 2
    /\ DeckDocs(cards) = (3 :> 0 @@ 1 :> 1 @@ 2 :> 2)

\* C17: in every state in which no reorder commit of any client is in
\* flight, no two cards of the deck have the same orderIndex, after any
\* sequence of the operations of CardScreen (create, edit, delete, move up,
\* move down, changing the search query).
C17_OrderIndexUnique ==
    (\A c \in Clients : CommitsInFlight(c) = {}) =>
        \A i, j \in DOMAIN cards : i # j => cards[i].orderIndex # cards[j].orderIndex

\* C18: every list a move started from CardScreen hands to reorderCards is a
\* permutation of the deck: it holds every card stored in the deck at that
\* moment exactly once and nothing else, whatever the search query is.
C18_MovesHandOverPermutation ==
    [][\A k \in DOMAIN calls :
          calls[k].pc = "idle" /\ calls'[k].pc = "commit" /\ calls'[k].kind \in Moves
          => /\ Distinct(calls'[k].cardIds)
             /\ Range(calls'[k].cardIds) = DOMAIN cards
      ]_vars

\* C19: a successful moveCardUp of the second card of a list of two or more
\* distinct cards, followed by a successful moveCardDown of the same card
\* that is given the list the first call committed, commits the original
\* list again, and every listed card has the orderIndex again that was
\* stored before the first call.
C19_RoundTripRestoresStored ==
    trip.phase = "done" =>
        /\ trip.final = args.currentCards
        /\ \A id \in Range(args.currentCards) :
                cards[id].orderIndex = trip.docs[id].orderIndex

\* C19, amended: the two calls commit the original list again, so every
\* listed card ends with its 0-based position in the original list as its
\* orderIndex; these are the values stored before the first call when the
\* list was stored with orderIndex 0..n-1 in list order.
C19_RoundTripRestoresOrder ==
    trip.phase = "done" =>
        /\ trip.final = args.currentCards
        /\ \A i \in 1..Len(args.currentCards) :
                cards[args.currentCards[i]].orderIndex = i - 1
        /\ (\A i \in 1..Len(args.currentCards) :
                trip.docs[args.currentCards[i]].orderIndex = i - 1)
            => \A id \in Range(args.currentCards) :
                    cards[id].orderIndex = trip.docs[id].orderIndex

\* Both moves of card 2 of the list <<1, 2, 3>> have resolved; the first one
\* had committed <<2, 1, 3>>.
C19_Witness ==
    /\ trip.phase = "done"
    /\ args = [cardId |-> 2, currentCards |-> <<1, 2, 3>>]
    /\ trip.reordered = <<2, 1, 3>>
    /\ event = Settled("resolved", Caller, "moveCardDown", Null)

\* The cards of the deck that were added before card id: addDoc hands out
\* the identifiers of the model in ascending order.
AddedBefore(id) == {j \in DOMAIN cards : j < id}

\* C21: the card of a createCard call that has succeeded (its deck update is
\* applied) was created with the highest orderIndex of the cards in the deck
\* at the time it was added, plus 1, and with 0 in an empty deck, also when
\* createCard calls of two clients interleave.  Stated where cards are only
\* created, so that the cards in the deck at that time are those with a
\* smaller identifier, with the orderIndex they still have.
C21_CreatedAfterLast ==
    \A k \in DOMAIN calls :
        calls[k].pc = "applied" /\ calls[k].kind = "createCard" =>
            cards[calls[k].docRef].orderIndex =
                MaxOf({-1} \cup {cards[j].orderIndex : j \in AddedBefore(calls[k].docRef)}) + 1

\* C22: whenever no createCard and no deleteCard call is in flight, the
\* deck's cardCount is the number of cards stored for the deck, whether the
\* calls made so far have succeeded or failed.
C22_CardCountIsNumberOfCards ==
    (\A k \in DOMAIN calls :
        calls[k].pc # "idle" => calls[k].kind \notin {"createCard", "deleteCard"})
    => deck.cardCount = Cardinality(DOMAIN cards)

\* C23: the deleteDoc step of a deleteCard call removes the named card and
\* nothing else, every other card keeping its fields, its orderIndex among
\* them; no other step of the call, up to the one that resolves it, writes a
\* card.  No index is compacted: the gap stays.
C23_DeleteRemovesOnlyNamedCard ==
    [][\A k \in DOMAIN calls :
          calls[k].pc # "idle" /\ calls[k].kind = "deleteCard" /\ calls'[k] # calls[k]
          => IF calls[k].pc = "delete:deleteDoc" /\ calls'[k].pc = "delete:getDocs"
             THEN /\ DOMAIN cards' = DOMAIN cards \ {calls[k].cardId}
                  /\ \A id \in DOMAIN cards' : cards'[id] = cards[id]
             ELSE cards' = cards
      ]_vars

\* deleteCard(2) has resolved on the deck of three cards: cards 1 and 3 are
\* left with orderIndex 0 and 2.
C23_Witness ==
    /\ event = Settled("resolved", Caller, "deleteCard", Null)
    /\ args.cardId = 2
    /\ DOMAIN cards = {1, 3}
    /\ cards[1].orderIndex = 0
    /\ cards[3].orderIndex = 2

\* C24: reorderCards, moveCardUp and moveCardDown change positions only:
\* no step of theirs creates or deletes a card or hands out an identifier,
\* and every card keeps its title and the deck its cardCount; what a step
\* writes is orderIndex and updatedAt of cards and updatedAt of the deck.
C24_ReorderChangesPositionsOnly ==
    [][/\ DOMAIN cards' = DOMAIN cards
       /\ nextId' = nextId
       /\ \A id \in DOMAIN cards : cards'[id].title = cards[id].title
       /\ deck'.cardCount = deck.cardCount
      ]_vars

\* moveCardUp(2, <<1, 2, 3>>) has resolved: cards 1 and 2 have swapped their
\* orderIndex and every card has the title and the deck the cardCount it had.
C24_Witness ==
    /\ event = Settled("resolved", Caller, "moveCardUp", Null)
    /\ args = [cardId |-> 2, currentCards |-> <<1, 2, 3>>]
    /\ cards[1].orderIndex = 1 /\ cards[2].orderIndex = 0 /\ cards[3].orderIndex = 2
    /\ \A id \in 1..3 : cards[id].title = InitialTitle(id)
    /\ deck.cardCount = 3

\* C25: reorderCards validates nothing about its list but that it is not
\* empty.  For a signed-in caller, any non-empty list (incomplete, naming a
\* card of another deck, naming a card twice) is taken and its commit is
\* awaited; the step that applies the commit leaves every named card with
\* the index of its (last) position in the list, a card of another deck
\* included, and leaves every card that is not named as it was.
C25_ReorderValidatesNothingElse ==
    [][/\ user[Caller] /\ Len(args.currentCards) > 0
            /\ ReorderCards(Caller, args.currentCards)
          => \E k \in DOMAIN calls :
                /\ calls[k].pc = "idle"
                /\ calls'[k] = [pc |-> "commit", client |-> Caller,
                                kind |-> "reorderCards", cardIds |-> args.currentCards]
       /\ \A k \in DOMAIN calls :
            calls[k].pc = "commit" /\ calls'[k].pc = "applied" =>
                \A id \in DOMAIN cards :
                    IF id \in Range(calls[k].cardIds)
                    THEN cards'[id].orderIndex = NewIndex(calls[k].cardIds, id)
                    ELSE cards'[id] = cards[id]
       /\ \A k \in DOMAIN calls :
            calls[k].pc = "applied" /\ calls'[k].pc = "idle" =>
                event' = Settled("resolved", calls[k].client, calls[k].kind, Null)
      ]_vars

\* reorderCards(<<3, 1, 1>>) has resolved on the deck of cards 1 and 2:
\* card 3 of the other deck has orderIndex 0, card 1 has 2, and card 2, which
\* the list does not name, still has 1.
C25_Witness ==
    /\ event = Settled("resolved", Caller, "reorderCards", Null)
    /\ args.currentCards = <<3, 1, 1>>
    /\ cards[3].deckId = OtherDeckId
    /\ cards[3].orderIndex = 0
    /\ cards[1].orderIndex = 2
    /\ cards[2].orderIndex = 1 /\ cards[2].updatedAt = 0

\* C26: nothing is retried.  A call starts awaiting a commit only in the step
\* in which its caller invokes reorderCards, moveCardUp or moveCardDown; a
\* call whose commit has failed or has been applied never awaits a commit
\* again, it only settles; and the cards are written only by the step that
\* applies the one commit of a call.
C26_NoRetry ==
    [][/\ \A k \in DOMAIN calls :
            /\ calls[k].pc = "failed" => calls'[k].pc \in {"failed", "idle"}
            /\ calls[k].pc = "applied" => calls'[k].pc \in {"applied", "idle"}
            /\ calls[k].pc # "commit" /\ calls'[k].pc = "commit" =>
                  /\ calls[k].pc = "idle"
                  /\ \E c \in Clients :
                        \/ ReorderCards(c, args.currentCards)
                        \/ MoveCardUp(c, args.cardId, args.currentCards)
                        \/ MoveCardDown(c, args.cardId, args.currentCards)
       /\ cards' # cards =>
            \E k \in DOMAIN calls : calls[k].pc = "commit" /\ calls'[k].pc = "applied"
      ]_vars

\* reorderCards(<<2, 1>>) has rejected with the error of storage: no call is
\* awaiting and no commit has been applied.
C26_Witness ==
    /\ event.type = "rejected"
    /\ event.kind = "reorderCards"
    /\ event.error \in StorageErrors
    /\ args.currentCards = <<2, 1>>
    /\ \A k \in DOMAIN calls : calls[k].pc = "idle"
    /\ clock = 0
    /\ cards = InitialCards(2)

\* C27: a failure of an operation started from CardScreen is caught by the
\* handler that awaited it: whatever moveCardUp or moveCardDown rejects with,
\* no rejection and no exception of a handler or of a button callback
\* reaches the top level of any client.
C27_NothingEscapesTheHandlers ==
    \A c \in Clients : ~screen[c].unhandled

\* A move started with a button of the caller's screen has rejected with the
\* error of storage and the hook shows that error.
C27_Witness ==
    /\ event.type = "rejected"
    /\ event.client = Caller
    /\ event.kind = "moveCardDown"
    /\ event.error \in StorageErrors
    /\ error[Caller] = event.error
    /\ ~screen[Caller].unhandled

\* C28: for every card at position i (0-based) of the n cards a screen
\* lists, the move-up button is enabled exactly when i > 0 and loading is
\* false, and the move-down button exactly when i < n - 1 and loading is
\* false.
C28_ButtonsByPositionAndLoading ==
    \A c \in Clients :
        LET n == Len(FilteredCards(c))
        IN  \A i \in 0..(n - 1) :
                /\ ~MoveUpDisabled(c, i) <=> (i > 0 /\ ~loading[c])
                /\ ~MoveDownDisabled(c, i) <=> (i < n - 1 /\ ~loading[c])

\* The caller's screen lists three cards while a call is in flight: all six
\* move buttons are disabled.
C28_Witness ==
    /\ ListShown(Caller)
    /\ Len(FilteredCards(Caller)) = 3
    /\ loading[Caller]
    /\ InFlight(Caller) # {}
    /\ \A i \in 0..2 : MoveUpDisabled(Caller, i) /\ MoveDownDisabled(Caller, i)

\* C29: the edit and the delete button of every listed card stay enabled
\* while loading is true: while the list is shown, a click on either is
\* possible whatever the loading flag says, so an edit or a delete can be
\* started while a reorder is in flight.
C29_EditAndDeleteStayEnabled ==
    \A c \in Clients :
        ListShown(c) /\ loading[c] =>
            \A i \in Positions(c) :
                /\ ENABLED ClickEdit(c, i)
                /\ ENABLED ClickDelete(c, i)

\* An updateCard call started with the edit button and the Save button is in
\* flight together with the commit of a move that was started before it.
C29_Witness ==
    \E j, k \in InFlight(Caller) :
        /\ calls[j].pc = "commit"
        /\ calls[j].kind \in Moves
        /\ calls[k].kind = "updateCard"
        /\ j < k

\* C30: the check of the user comes first.  With no current user, moveCardUp
\* and moveCardDown of a target that cannot be moved (first, last or absent)
\* reject with 'User must be authenticated', not with their invalid-move
\* error, and reorderCards of an empty list rejects with it, not with 'Card
\* IDs are required'.
C30_AuthenticationCheckedFirst ==
    [][\A c \in Clients :
          LET cardIndex == FindIndex(args.currentCards, args.cardId)
          IN  ~user[c] =>
                /\ MoveCardUp(c, args.cardId, args.currentCards) /\ CannotMoveUp(cardIndex)
                      => event' = Settled("rejected", c, "moveCardUp", ErrAuth)
                /\ MoveCardDown(c, args.cardId, args.currentCards)
                      /\ CannotMoveDown(cardIndex, Len(args.currentCards))
                      => event' = Settled("rejected", c, "moveCardDown", ErrAuth)
                /\ ReorderCards(c, args.currentCards) /\ Len(args.currentCards) = 0
                      => event' = Settled("rejected", c, "reorderCards", ErrAuth)
      ]_vars

\* moveCardDown('non-existent-card', <<1, 2>>) of a client without a user
\* has rejected with the unauthenticated error.
C30_Witness ==
    /\ args = [cardId |-> MissingId, currentCards |-> <<1, 2>>]
    /\ event.type = "rejected"
    /\ event.kind = "moveCardDown"
    /\ event.error = ErrAuth
    /\ ~user[event.client]

ReorderKinds == Moves \cup {"reorderCards"}

PreconditionErrors ==
    {ErrAuth, ErrCardIds, ErrMoveUp, ErrMoveDown, ErrDeckId, ErrTitle, ErrCardId}

\* C32: a step in which a call rejects with the error of a precondition
\* check (no user, empty list, invalid move, blank title, missing deck or
\* card identifier) leaves the hook's loading and error as they were, also
\* while another call is in flight, starts no request and writes nothing to
\* storage.
C32_PreconditionFailureChangesNothing ==
    [][event'.type = "rejected" /\ event'.error \in PreconditionErrors
          => UNCHANGED <<loading, error, calls, cards, deck, clock, nextId>>
      ]_vars

\* createCard(' ') has rejected with 'Card title is required' while an
\* earlier call of the caller is in flight: loading is still true.
C32_Witness ==
    /\ event = Settled("rejected", Caller, "createCard", ErrTitle)
    /\ InFlight(Caller) # {}
    /\ loading[Caller]

\* The places of a createCard, updateCard or deleteCard call at which a write
\* of the call has been applied to storage.
AfterAWrite == {"create:updateDeck", "update:updateDeck", "delete:getDocs", "delete:updateDeck"}

\* C33: a createCard, updateCard or deleteCard call that rejects with an
\* error of storage has left storage unchanged: no request of such a call
\* is rejected by storage after a write of the call has been applied (the
\* calls undo none of their writes).
C33_FailedCallWroteNothing ==
    [][\A k \in DOMAIN calls :
          calls[k].pc \in AfterAWrite => calls'[k].pc # "failed"
      ]_vars

\* ------------------------------------------------ the hook, every await returning

\* The request call k awaits returns, with a result or with an error.
StorageReturns(k) ==
    /\ \/ CommitApplied(k)
       \/ \E message \in StorageErrors : CommitFailed(k, message)
       \/ CreateGetDocs(k)
       \/ CreateAddDoc(k)
       \/ CreateUpdateDeck(k)
       \/ UpdateUpdateDoc(k)
       \/ UpdateUpdateDeck(k)
       \/ DeleteDeleteDoc(k)
       \/ DeleteGetDocs(k)
       \/ DeleteUpdateDeck(k)
       \/ \E message \in StorageErrors : RequestFailed(k, message)
    /\ UNCHANGED callerVars

\* The code after the last await of call k, or its catch block, runs.
Settles(k) == (Resolve(k) \/ Reject(k)) /\ UNCHANGED callerVars

\* Every request returns and the JavaScript event loop runs every continuation
\* that is ready.
FairHook ==
    \A k \in 1..MaxOverlap : WF_vars(StorageReturns(k)) /\ WF_vars(Settles(k))

SpecHookLive == InitHook /\ [][NextHook]_vars /\ FairHook

\* C34: when every request returns, every call that was started settles (its
\* slot is free again), and with no call in flight loading is false.
C34_EveryCallSettles ==
    /\ \A k \in 1..MaxOverlap : (calls[k].pc # "idle") ~> (calls[k].pc = "idle")
    /\ [](\A c \in Clients : InFlight(c) = {} => ~loading[c])

C34_Witness ==
    /\ event.type \in {"resolved", "rejected"}
    /\ event.kind = "deleteCard"
    /\ InFlight(Caller) = {}
    /\ ~loading[Caller]
    /\ clock > 0

\* C35: for the list the screen displays and passes, and a hook that is not
\* loading, the move-up (move-down) button of a card is enabled exactly when
\* moveCardUp (moveCardDown) with that card and that list passes its bounds
\* check; and no click on a move button is rejected for an invalid move.
C35_GuardAgreesWithBoundsCheck ==
    /\ [](\A c \in Clients : \A index \in Positions(c) :
            LET list == Ids(FilteredCards(c))
                cardIndex == FindIndex(list, list[index + 1])
            IN  ~IsReordering(c) =>
                  /\ ~MoveUpDisabled(c, index) <=> ~CannotMoveUp(cardIndex)
                  /\ ~MoveDownDisabled(c, index) <=> ~CannotMoveDown(cardIndex, Len(list)))
    /\ [][\A c \in Clients, index \in 0..(MaxCards - 1) :
            ClickMoveUp(c, index) \/ ClickMoveDown(c, index)
               => (event'.type = "rejected" => event'.error \notin {ErrMoveUp, ErrMoveDown})]_vars

C35_Witness ==
    /\ \E k \in DOMAIN calls :
          /\ calls[k].pc = "commit"
          /\ calls[k].kind = "moveCardDown"
          /\ calls[k].client = Caller
    /\ Len(screen[Caller].cards) = MaxCards
    /\ Len(FilteredCards(Caller)) = MaxCards - 1
    /\ screen[Caller].searchQuery = "a"
    /\ loading[Caller]

\* A step of an updateCard call in slot k: its start, one of its awaits
\* returning, or its end.
UpdateCardStep(k) ==
    /\ calls'[k] # calls[k]
    /\ \/ calls[k].pc # "idle" /\ calls[k].kind = "updateCard"
       \/ calls'[k].pc # "idle" /\ calls'[k].kind = "updateCard"

\* C36: no step of an updateCard call, successful or failed, and no updateCard
\* call refused by a check, adds or removes a card or changes a card's
\* orderIndex.
C36_UpdateKeepsOrdering ==
    [][(\/ \E k \in DOMAIN calls : UpdateCardStep(k)
        \/ event'.type = "rejected" /\ event'.kind = "updateCard")
          => /\ DOMAIN cards' = DOMAIN cards
             /\ \A id \in DOMAIN cards : cards'[id].orderIndex = cards[id].orderIndex]_vars

C36_Witness ==
    /\ event = Settled("resolved", Caller, "updateCard", Null)
    /\ DOMAIN cards = 1..MaxCards
    /\ cards[MaxCards].title = "b"
    /\ cards[MaxCards].updatedAt > 0
    /\ cards[MaxCards].orderIndex = MaxCards - 1

\* ------------------------------------------------------------------ App

MaxTimers == 3

\* The decks DeckScreen lists, and the title of each.
Decks == {DeckId, OtherDeckId}
DeckTitleOf(deckId) == IF deckId = DeckId THEN "Test deck" ELSE "Other deck"

\* What App returns for the signed-in user.
View ==
    IF appState.isTransitioning THEN "LoadingSpinner"
    ELSE IF appState.currentScreen = "cards" THEN "CardScreen"
    ELSE "DeckScreen"

\* The variables App leaves alone.
outsideApp ==
    <<cards, deck, clock, user, loading, error, calls, event, args, nextId, screen, trip>>

\* navigateToCards(deckId, deckTitle): setAppState(prev => ({...prev,
\* isTransitioning: true})), then setTimeout of the callback that sets the new
\* state. The function reads nothing of the state, so it starts a transition
\* whatever the state is, an earlier transition still in progress included.
NavigateToCards(deckId, deckTitle) ==
    /\ Len(timers) < MaxTimers
    /\ appState' = [appState EXCEPT !.isTransitioning = TRUE]
    /\ timers' = Append(timers, [currentScreen |-> "cards", selectedDeckId |-> deckId,
                                 selectedDeckTitle |-> deckTitle, isTransitioning |-> FALSE])
    /\ UNCHANGED outsideApp

\* navigateToDecks whose callback spreads the state it was created with and
\* sets the screen and the flag only.
NavigateToDecksSpreading ==
    /\ Len(timers) < MaxTimers
    /\ appState' = [appState EXCEPT !.isTransitioning = TRUE]
    /\ timers' = Append(timers, [appState EXCEPT !.currentScreen = "decks",
                                                 !.isTransitioning = FALSE])
    /\ UNCHANGED outsideApp

\* navigateToDecks()
NavigateToDecks ==
    /\ Len(timers) < MaxTimers
    /\ appState' = [appState EXCEPT !.isTransitioning = TRUE]
    /\ timers' = Append(timers, [currentScreen |-> "decks", selectedDeckId |-> Null,
                                 selectedDeckTitle |-> Null, isTransitioning |-> FALSE])
    /\ UNCHANGED outsideApp

\* The 150 ms of the oldest pending setTimeout are over: its callback sets
\* the whole state. Timers of one delay run in the order they were set.
TimerFires ==
    /\ timers # <<>>
    /\ appState' = Head(timers)
    /\ timers' = Tail(timers)
    /\ UNCHANGED outsideApp

InitApp ==
    /\ cards = InitialCards(MaxCards)
    /\ deck = InitialDeck(MaxCards)
    /\ nextId = MaxCards + 1
    /\ clock = 0
    /\ user = [c \in Clients |-> c = Caller]
    /\ loading = [c \in Clients |-> FALSE]
    /\ error = [c \in Clients |-> Null]
    /\ calls = [k \in CallIds |-> IdleCall]
    /\ event = NoEvent
    /\ args = [cardId |-> MissingId, currentCards |-> <<>>]
    /\ screen = [c \in Clients |-> ScreenOf(<<>>)]
    /\ trip = NoTrip
    /\ appState = InitialAppState
    /\ timers = <<>>

NextApp ==
    \/ \E deckId \in Decks : NavigateToCards(deckId, DeckTitleOf(deckId))
    \/ NavigateToDecks
    \/ TimerFires

\* The browser runs every timer that was set.
SpecApp == InitApp /\ [][NextApp]_vars /\ WF_vars(TimerFires)

\* C37: with the cards screen current and no transition in progress the
\* selected deck id is not null; with the decks screen current it is null; and
\* every transition that was started ends with isTransitioning false.
C37_NavigationKeepsDeckAndEnds ==
    /\ [](appState.currentScreen = "cards" /\ ~appState.isTransitioning
            => appState.selectedDeckId # Null)
    /\ [](appState.currentScreen = "decks" => appState.selectedDeckId = Null)
    /\ (appState.isTransitioning \/ timers # <<>>) ~> ~appState.isTransitioning

C37_Witness ==
    /\ View = "CardScreen"
    /\ appState.selectedDeckId = OtherDeckId
    /\ appState.selectedDeckTitle = DeckTitleOf(OtherDeckId)
    /\ timers = <<>>

====
